---------------------------- MODULE Spec2Model ----------------------------
(***************************************************************************)
(* A model of moz-webgpu-cts: the expectation data model (shared.rs) and   *)
(* the update-expected reconciliation of metadata with execution reports   *)
(* (main.rs).                                                              *)
(***************************************************************************)
EXTENDS Integers, Sequences, FiniteSets, TLC

VARIABLES
    \* Expectation algebra (shared.rs, struct Expectation)
    lhs, rhs, made, len_panicked,
    \* collapse / expand of an expectation matrix
    outcomes, normalized, expanded,
    \* repeated tainting of one subtest expectation
    taint_input, expected, tainted_from, taint_count,
    \* the static latch of taint_subtest_timeouts_by_suspicion
    PRINTED_WARNING,
    \* reconcile as a function: its inputs, and the results of applying it
    \* once and of applying it again to its own result
    entry, reconciled_once, reconciled_twice,
    \* the preset argument of update-expected
    preset,
    \* update-expected (main.rs, run): the position in the run, the number
    \* of report files given and of those not yet received, the number of
    \* metadata tests loaded, the correlation store, and the files written
    \* and removed
    pc, exec_report_paths, reports_left, meta_loaded,
    entries_by_cts_path, other_entries_by_test, old_meta_file_paths,
    files, removed_files,
    \* what the run was given and what it logged: the metadata tests in the
    \* order they were loaded, the reports in the order the collector
    \* received them, and the duplicate errors logged
    loaded, received, dupe_log,
    \* one test seen from both sides: its relative path and variant, and per
    \* scope the TestPath derived from its report URL and from its metadata
    rel_path, test_variant, from_report, from_meta,
    \* the fan-out of the report files: the state of the worker task of each
    \* path, the messages in the channel, and every message sent so far
    task, channel, sent,
    \* one call of from_execution_report: its arguments and what it returned
    url_path, report_browser, derived

expVars == <<lhs, rhs, made, len_panicked>>
collapseVars == <<outcomes, normalized, expanded>>
taintVars == <<taint_input, expected, tainted_from, taint_count>>
reconcileVars == <<entry, reconciled_once, reconciled_twice>>
runVars == <<pc, exec_report_paths, reports_left, meta_loaded,
             entries_by_cts_path, other_entries_by_test, old_meta_file_paths,
             files, removed_files, loaded, received, dupe_log>>

pathVars == <<rel_path, test_variant, from_report, from_meta>>

ingestVars == <<task, channel, sent>>
urlVars == <<url_path, report_browser, derived>>

vars == <<expVars, collapseVars, taintVars, PRINTED_WARNING, reconcileVars, preset, runVars,
          pathVars, ingestVars, urlVars>>

otherThanExp ==
    <<collapseVars, taintVars, PRINTED_WARNING, reconcileVars, preset, runVars, pathVars,
      ingestVars, urlVars>>
otherThanCollapse ==
    <<expVars, taintVars, PRINTED_WARNING, reconcileVars, preset, runVars, pathVars,
      ingestVars, urlVars>>
otherThanTaint ==
    <<expVars, collapseVars, reconcileVars, preset, runVars, pathVars,
      ingestVars, urlVars>>
otherThanReconcile ==
    <<expVars, collapseVars, taintVars, PRINTED_WARNING, runVars, pathVars, ingestVars,
      urlVars>>
otherThanRun ==
    <<expVars, collapseVars, taintVars, reconcileVars, pathVars, ingestVars, urlVars>>
otherThanIngest == <<expVars, collapseVars, taintVars, reconcileVars, pathVars, urlVars>>
otherThanUrl ==
    <<expVars, collapseVars, taintVars, PRINTED_WARNING, reconcileVars, preset, runVars,
      pathVars, ingestVars>>
otherThanPath ==
    <<expVars, collapseVars, taintVars, PRINTED_WARNING, reconcileVars, preset, runVars,
      ingestVars, urlVars>>

----------------------------------------------------------------------------
(* Option<T> *)

None == [some |-> FALSE]
Some(x) == [some |-> TRUE, val |-> x]
unwrap_or(opt, dflt) == IF opt.some THEN opt.val ELSE dflt

----------------------------------------------------------------------------
(* The closed enumerations, in declaration (iteration) order. *)

Platform == <<"Windows", "Linux", "MacOs">>
BuildProfile == <<"Debug", "Optimized">>
TestOutcome == <<"Ok", "Timeout", "Crash", "Error", "Skip">>
SubtestOutcome == <<"Pass", "Fail", "Timeout", "Crash", "NotRun">>

Range(seq) == {seq[i] : i \in 1..Len(seq)}
FirstN(seq, n) == {seq[i] : i \in 1..(IF n < Len(seq) THEN n ELSE Len(seq))}
Platforms == Range(Platform)
BuildProfiles == Range(BuildProfile)

\* Out::default(): the "good" outcome of an enumeration, its first variant.
default_outcome(Out) == Out[1]

----------------------------------------------------------------------------
(* Expectation<Out>: a set of outcomes, meant never to be empty. *)

\* Expectation::new without its emptiness test.
new_unchecked(set) == Some(set)

new(set) == IF set # {} THEN Some(set) ELSE None

permanent(outcome) == {outcome}

intermittent(set) == IF Cardinality(set) <= 1 THEN None ELSE Some(new(set).val)

expectation_default(Out) == permanent(default_outcome(Out))

\* len(): the conversion to NonZeroUsize panics on zero; None stands for the panic.
len(exp) == IF Cardinality(exp) = 0 THEN None ELSE Some(Cardinality(exp))

is_disjoint(exp, rep) == exp \cap rep = {}

is_superset(exp, rep) == rep \subseteq exp

\* BitOr that keeps the left operand and drops the right one.
bitor_keeping_lhs(a, b) == a

bitor(a, b) == a \cup b

----------------------------------------------------------------------------
(* FullyExpandedExpectationPropertyValue<Out>:                             *)
(* EnumMap<Platform, EnumMap<BuildProfile, Expectation<Out>>>.             *)

uniform(expectation) == [p \in Platforms |-> [b \in BuildProfiles |-> expectation]]

\* get that drops the build profile index and reads the first profile.
get_ignoring_build_profile(matrix, platform, build_profile) ==
    matrix[platform][BuildProfile[1]]

get(matrix, platform, build_profile) == matrix[platform][build_profile]

\* from_query evaluates f(platform, build_profile) for every cell; f is given
\* here as the table of its values.
from_query(f) == [p \in Platforms |-> [b \in BuildProfiles |-> f[<<p, b>>]]]

\* iter(): the cells in platform-major order.
Cells == [i \in 1..(Len(Platform) * Len(BuildProfile)) |->
            <<Platform[((i - 1) \div Len(BuildProfile)) + 1],
              BuildProfile[((i - 1) % Len(BuildProfile)) + 1]>>]
CellSet == Platforms \X BuildProfiles

iter(matrix) == [i \in 1..Len(Cells) |-> matrix[Cells[i][1]][Cells[i][2]]]

----------------------------------------------------------------------------
(* NormalizedExpectationPropertyValue<Out> and MaybeCollapsed.             *)

Collapsed(c) == [tag |-> "Collapsed", val |-> c]
Expanded(e) == [tag |-> "Expanded", val |-> e]

\* same_value: the first item if every item equals it; None for no items.
same_value(seq) ==
    IF Len(seq) = 0 THEN None
    ELSE IF \A i \in 1..Len(seq) : seq[i] = seq[1] THEN Some(seq[1]) ELSE None

\* A per-platform entry that takes the Debug cell for the whole platform
\* without comparing the build profiles.
per_platform_unchecked(outcomes_by_bp) == Collapsed(outcomes_by_bp[BuildProfile[1]])

per_platform(outcomes_by_bp) ==
    LET uniform_per_bp == same_value([i \in 1..Len(BuildProfile) |-> outcomes_by_bp[BuildProfile[i]]])
    IN  IF uniform_per_bp.some
        THEN Collapsed(uniform_per_bp.val)
        ELSE Expanded(outcomes_by_bp)

\* Collapse without its second tier: platforms with one row are not merged.
from_fully_expanded_without_row_tier(matrix) ==
    LET all == same_value(iter(matrix))
    IN  IF all.some
        THEN Collapsed(Collapsed(all.val))
        ELSE Expanded([p \in Platforms |-> per_platform(matrix[p])])

from_fully_expanded(matrix) ==
    LET all == same_value(iter(matrix))
        uniform_per_platform == same_value([i \in 1..Len(Platform) |-> matrix[Platform[i]]])
    IN  IF all.some
        THEN Collapsed(Collapsed(all.val))
        ELSE IF uniform_per_platform.some
             THEN Collapsed(Expanded(uniform_per_platform.val))
             ELSE Expanded([p \in Platforms |-> per_platform(matrix[p])])

\* Expansion: a collapsed value stands for the same value at every key.
expand_by_bp(by_bp) ==
    IF by_bp.tag = "Collapsed"
    THEN [b \in BuildProfiles |-> by_bp.val]
    ELSE by_bp.val

expand(value) ==
    IF value.tag = "Collapsed"
    THEN [p \in Platforms |-> expand_by_bp(value.val)]
    ELSE [p \in Platforms |-> expand_by_bp(value.val[p])]

----------------------------------------------------------------------------
(* Suspicion tainting of a subtest expectation (main.rs).                  *)

TimeoutOrNotRun == {"Timeout", "NotRun"}

\* Tainting that toggles the two outcomes (^=) instead of adding them (|=).
taint_toggling(exp) ==
    IF ~is_disjoint(exp, TimeoutOrNotRun)
    THEN (exp \ TimeoutOrNotRun) \cup (TimeoutOrNotRun \ exp)
    ELSE exp

taint_subtest_timeouts_by_suspicion(exp) ==
    IF ~is_disjoint(exp, TimeoutOrNotRun)
    THEN bitor(exp, TimeoutOrNotRun)
    ELSE exp

----------------------------------------------------------------------------
(* Entry<Out> and TestProps<Out>; reconcile (main.rs).                     *)

\* TestProps::default(): not disabled, no expectations.
TestPropsDefault == [is_disabled |-> FALSE, expectations |-> None]

\* The closure `reported`: the recorded expectation of a cell, if any, in
\* BTreeMap<Platform, BTreeMap<BuildProfile, Expectation>>.
reported_at(reported, platform, build_profile) ==
    IF platform \in DOMAIN reported
    THEN IF build_profile \in DOMAIN reported[platform]
         THEN Some(reported[platform][build_profile])
         ELSE None
    ELSE None

all_reported(reported, Out) ==
    from_query([c \in CellSet |->
        unwrap_or(reported_at(reported, c[1], c[2]), expectation_default(Out))])

\* Merge that keeps only the reported expectation of a reported cell.
resolve_replacing(p, meta, rep) ==
    IF rep.some THEN rep.val ELSE meta

\* ResetContradictory with the operands of the superset test exchanged.
resolve_subset(p, meta, rep) ==
    IF p = "ResetContradictory"
    THEN (IF rep.some /\ ~is_superset(rep.val, meta) THEN rep.val ELSE meta)
    ELSE (IF rep.some THEN bitor(meta, rep.val) ELSE meta)

\* Merge that leaves the metadata of a reported cell as it is.
resolve_keeping(p, meta, rep) ==
    IF p = "ResetContradictory"
    THEN (IF rep.some /\ ~is_superset(meta, rep.val) THEN rep.val ELSE meta)
    ELSE meta

resolve(p, meta, rep) ==
    IF p = "ResetContradictory"
    THEN (IF rep.some /\ ~is_superset(meta, rep.val) THEN rep.val ELSE meta)
    ELSE (IF rep.some THEN bitor(meta, rep.val) ELSE meta)

\* all_reported with the default of an unreported cell left to the metadata.
reconciled_keeping_meta(e, p, Out) ==
    LET meta_props == unwrap_or(e.meta_props, TestPropsDefault)
    IN  from_query([c \in CellSet |->
            unwrap_or(reported_at(e.reported, c[1], c[2]),
                      IF meta_props.expectations.some
                      THEN get(meta_props.expectations.val, c[1], c[2])
                      ELSE expectation_default(Out))])

\* The block 'resolve of reconcile: the reconciled matrix.
reconciled(e, p, Out) ==
    LET meta_props == unwrap_or(e.meta_props, TestPropsDefault)
    IN  IF p = "ResetAll"
        THEN all_reported(e.reported, Out)
        ELSE IF meta_props.expectations.some
             THEN from_query([c \in CellSet |->
                     resolve(p, get(meta_props.expectations.val, c[1], c[2]),
                             reported_at(e.reported, c[1], c[2]))])
             ELSE all_reported(e.reported, Out)

\* reconcile that starts from the default properties whatever the metadata.
reconcile_from_default(e, p, Out) ==
    [TestPropsDefault EXCEPT !.expectations = Some(reconciled(e, p, Out))]

reconcile(e, p, Out) ==
    [unwrap_or(e.meta_props, TestPropsDefault)
        EXCEPT !.expectations = Some(reconciled(e, p, Out))]

\* accumulate that writes a permanent expectation over the cell each time.
accumulate_overwriting(recorded, platform, build_profile, reported_outcome) ==
    LET by_bp == IF platform \in DOMAIN recorded THEN recorded[platform] ELSE <<>>
        new_by_bp == [b \in DOMAIN by_bp \cup {build_profile} |->
                        IF b = build_profile THEN permanent(reported_outcome) ELSE by_bp[b]]
    IN  [q \in DOMAIN recorded \cup {platform} |->
            IF q = platform THEN new_by_bp ELSE recorded[q]]

\* accumulate: record one reported outcome in the cell of its run.
accumulate(recorded, platform, build_profile, reported_outcome) ==
    LET by_bp == IF platform \in DOMAIN recorded THEN recorded[platform] ELSE <<>>
        cell == IF build_profile \in DOMAIN by_bp
                THEN bitor(by_bp[build_profile], {reported_outcome})
                ELSE permanent(reported_outcome)
        new_by_bp == [b \in DOMAIN by_bp \cup {build_profile} |->
                        IF b = build_profile THEN cell ELSE by_bp[b]]
    IN  [q \in DOMAIN recorded \cup {platform} |->
            IF q = platform THEN new_by_bp ELSE recorded[q]]

ReportProcessingPreset == {"ResetContradictory", "Merge", "ResetAll"}

----------------------------------------------------------------------------
(* Strings are sequences of characters.                                    *)

starts_with(str, prefix) ==
    Len(str) >= Len(prefix) /\ SubSeq(str, 1, Len(prefix)) = prefix

strip_prefix(str, prefix) ==
    IF starts_with(str, prefix)
    THEN Some(SubSeq(str, Len(prefix) + 1, Len(str)))
    ELSE None

\* The final component of a '/'-separated path.
file_name(path) ==
    LET slashes == {i \in 1..Len(path) : path[i] = "/"}
        last == IF slashes = {} THEN 0 ELSE CHOOSE i \in slashes : \A j \in slashes : j <= i
    IN  SubSeq(path, last + 1, Len(path))

\* Utf8Path::ends_with for a child of one component.
path_ends_with(path, child) == file_name(path) = child

----------------------------------------------------------------------------
(* TestPath and the CTS key of a test (main.rs, cts_path).                 *)

CtsVariantPrefix == <<"?", "q", "=", "w", "e", "b", "g", "p", "u", ":">>
QueryPrefix == <<"?", "q", "=">>
CtsFileName == <<"c", "t", "s", ".", "h", "t", "t", "p", "s", ".", "h", "t", "m", "l">>

\* cts_path without its test of the file name.
cts_path_of_any_file(test_path) ==
    IF test_path.variant.some /\ starts_with(test_path.variant.val, CtsVariantPrefix)
    THEN Some(strip_prefix(test_path.variant.val, QueryPrefix).val)
    ELSE None

cts_path(test_path) ==
    IF /\ test_path.variant.some
       /\ starts_with(test_path.variant.val, CtsVariantPrefix)
       /\ path_ends_with(test_path.path, CtsFileName)
    THEN Some(strip_prefix(test_path.variant.val, QueryPrefix).val)
    ELSE None

\* The metadata file of a test: rel_metadata_path depends on scope and path.
rel_metadata_path(test_path) == [scope |-> test_path.scope, path |-> test_path.path]

----------------------------------------------------------------------------
(* The two derivations of a TestPath (shared.rs). A Utf8Path is kept as    *)
(* its components joined by '/', which is what its equality compares.      *)

Ok(x) == [ok |-> TRUE, val |-> x]
Err == [ok |-> FALSE]

strip_suffix(str, suffix) ==
    IF /\ Len(str) >= Len(suffix)
       /\ SubSeq(str, Len(str) - Len(suffix) + 1, Len(str)) = suffix
    THEN Some(SubSeq(str, 1, Len(str) - Len(suffix)))
    ELSE None

contains(str, ch) == \E i \in 1..Len(str) : str[i] = ch

\* str::find: the index (from 0) of the first occurrence of a character.
find(str, ch) ==
    IF contains(str, ch)
    THEN Some((CHOOSE i \in 1..Len(str) :
                    str[i] = ch /\ \A j \in 1..(i - 1) : str[j] # ch) - 1)
    ELSE None

\* str::split('/'): the segments between the separators, empty ones too.
RECURSIVE split(_)
split(str) ==
    IF ~contains(str, "/") THEN <<str>>
    ELSE LET i == find(str, "/").val
         IN  <<SubSeq(str, 1, i)>> \o split(SubSeq(str, i + 2, Len(str)))

\* Utf8Path::components of a relative path: the segments that are not empty.
components(str) == SelectSeq(split(str), LAMBDA c : c # <<>>)

RECURSIVE join(_)
join(comps) ==
    IF comps = <<>> THEN <<>>
    ELSE IF Len(comps) = 1 THEN comps[1]
    ELSE comps[1] \o <<"/">> \o join(Tail(comps))

\* Utf8Path::new, up to the equality of paths.
utf8_path(str) == join(components(str))

\* Utf8Path::strip_prefix: by whole components.
path_strip_prefix(comps, base) ==
    IF Len(comps) >= Len(base) /\ SubSeq(comps, 1, Len(base)) = base
    THEN Some(SubSeq(comps, Len(base) + 1, Len(comps)))
    ELSE None

Browser == {"Firefox", "Servo"}
FirefoxPrivate == [browser |-> "Firefox", visibility |-> "Private"]
FirefoxPublic == [browser |-> "Firefox", visibility |-> "Public"]
ServoPublic == [browser |-> "Servo", visibility |-> "Public"]

SCOPE_DIR_FX_PRIVATE_STR == <<<<"t", "e", "s", "t", "i", "n", "g">>, <<"w", "e", "b", "-", "p", "l", "a", "t", "f", "o", "r", "m">>, <<"m", "o", "z", "i", "l", "l", "a">>>>
SCOPE_DIR_FX_PUBLIC_STR == <<<<"t", "e", "s", "t", "i", "n", "g">>, <<"w", "e", "b", "-", "p", "l", "a", "t", "f", "o", "r", "m">>>>
SCOPE_DIR_SERVO_PUBLIC_STR == <<<<"t", "e", "s", "t", "s">>, <<"w", "p", "t">>, <<"w", "e", "b", "g", "p", "u">>>>
MetaDir == <<<<"m", "e", "t", "a">>>>
IniSuffix == <<".", "i", "n", "i">>
MozillaUrlPrefix == <<"/", "_", "m", "o", "z", "i", "l", "l", "a", "/">>
ServoUrlPrefix == <<"/", "_", "w", "e", "b", "g", "p", "u", "/">>
RootUrlPrefix == <<"/">>

\* from_execution_report without its test for a backslash.
from_execution_report_unchecked(test_url_path, browser) ==
    LET private == strip_prefix(test_url_path, MozillaUrlPrefix)
        public == strip_prefix(test_url_path, RootUrlPrefix)
        servo == strip_prefix(test_url_path, ServoUrlPrefix)
        scoped ==
            IF browser = "Firefox"
            THEN IF private.some THEN Some([scope |-> FirefoxPrivate, path |-> private.val])
                 ELSE IF public.some THEN Some([scope |-> FirefoxPublic, path |-> public.val])
                 ELSE None
            ELSE IF servo.some THEN Some([scope |-> ServoPublic, path |-> servo.val])
                 ELSE None
    IN  IF ~scoped.some THEN Err
        ELSE LET path == scoped.val.path
                 path_and_maybe_variants == split(path)[Len(split(path))]
                 query_params_start_idx == find(path_and_maybe_variants, "?")
                 kept == IF query_params_start_idx.some
                         THEN Len(path) - (Len(path_and_maybe_variants)
                                            - query_params_start_idx.val)
                         ELSE Len(path)
             IN  Ok([scope |-> scoped.val.scope,
                     path |-> utf8_path(SubSeq(path, 1, kept)),
                     variant |->
                        IF query_params_start_idx.some
                        THEN Some(SubSeq(path_and_maybe_variants,
                                         query_params_start_idx.val + 1,
                                         Len(path_and_maybe_variants)))
                        ELSE None])

\* TestPath::from_execution_report
from_execution_report(test_url_path, browser) ==
    LET private == strip_prefix(test_url_path, MozillaUrlPrefix)
        public == strip_prefix(test_url_path, RootUrlPrefix)
        servo == strip_prefix(test_url_path, ServoUrlPrefix)
        scoped ==
            IF browser = "Firefox"
            THEN IF private.some THEN Some([scope |-> FirefoxPrivate, path |-> private.val])
                 ELSE IF public.some THEN Some([scope |-> FirefoxPublic, path |-> public.val])
                 ELSE None
            ELSE IF servo.some THEN Some([scope |-> ServoPublic, path |-> servo.val])
                 ELSE None
    IN  IF ~scoped.some THEN Err
        ELSE IF contains(scoped.val.path, "\\") THEN Err
        ELSE LET path == scoped.val.path
                 path_and_maybe_variants == split(path)[Len(split(path))]
                 query_params_start_idx == find(path_and_maybe_variants, "?")
                 kept == IF query_params_start_idx.some
                         THEN Len(path) - (Len(path_and_maybe_variants)
                                            - query_params_start_idx.val)
                         ELSE Len(path)
             IN  Ok([scope |-> scoped.val.scope,
                     path |-> utf8_path(SubSeq(path, 1, kept)),
                     variant |->
                        IF query_params_start_idx.some
                        THEN Some(SubSeq(path_and_maybe_variants,
                                         query_params_start_idx.val + 1,
                                         Len(path_and_maybe_variants)))
                        ELSE None])

\* TestPath::split_test_base_name_from_variant
split_test_base_name_from_variant(url_ish_name) ==
    LET query_params_start_idx == find(url_ish_name, "?")
    IN  IF query_params_start_idx.some
        THEN [base_name |-> SubSeq(url_ish_name, 1, query_params_start_idx.val),
              variant |-> Some(SubSeq(url_ish_name, query_params_start_idx.val + 1,
                                      Len(url_ish_name)))]
        ELSE [base_name |-> url_ish_name, variant |-> None]

\* The scope matching of from_metadata_test with the public root tried
\* before the private root that extends it.
scope_and_path_public_first(comps) ==
    LET private == path_strip_prefix(comps, SCOPE_DIR_FX_PRIVATE_STR)
        public == path_strip_prefix(comps, SCOPE_DIR_FX_PUBLIC_STR)
        servo == path_strip_prefix(comps, SCOPE_DIR_SERVO_PUBLIC_STR)
    IN  IF public.some THEN Some([scope |-> FirefoxPublic, path |-> public.val])
        ELSE IF private.some THEN Some([scope |-> FirefoxPrivate, path |-> private.val])
        ELSE IF servo.some THEN Some([scope |-> ServoPublic, path |-> servo.val])
        ELSE None

\* The scope matching of from_metadata_test: the first root that matches.
scope_and_path(comps) ==
    LET private == path_strip_prefix(comps, SCOPE_DIR_FX_PRIVATE_STR)
        public == path_strip_prefix(comps, SCOPE_DIR_FX_PUBLIC_STR)
        servo == path_strip_prefix(comps, SCOPE_DIR_SERVO_PUBLIC_STR)
    IN  IF private.some THEN Some([scope |-> FirefoxPrivate, path |-> private.val])
        ELSE IF public.some THEN Some([scope |-> FirefoxPublic, path |-> public.val])
        ELSE IF servo.some THEN Some([scope |-> ServoPublic, path |-> servo.val])
        ELSE None

\* TestPath::from_metadata_test
from_metadata_test(rel_meta_file_path, test_name) ==
    LET stripped == strip_suffix(rel_meta_file_path, IniSuffix)
        scoped == scope_and_path(components(stripped.val))
        path == path_strip_prefix(scoped.val.path, MetaDir)
        split_name == split_test_base_name_from_variant(test_name)
    IN  IF ~stripped.some THEN Err
        ELSE IF ~scoped.some THEN Err
        ELSE IF ~path.some THEN Err
        ELSE IF path.val = <<>> \/ path.val[Len(path.val)] # split_name.base_name THEN Err
        ELSE Ok([scope |-> scoped.val.scope,
                 path |-> join(path.val),
                 variant |-> split_name.variant])

\* The URL a report names a test by: the prefix of its scope, its path and
\* its variant.
report_url_of(scope, path, variant) ==
    (IF scope = FirefoxPrivate THEN MozillaUrlPrefix
     ELSE IF scope = FirefoxPublic THEN RootUrlPrefix
     ELSE ServoUrlPrefix) \o path \o unwrap_or(variant, <<>>)

\* The metadata file of a test: the root of its scope, meta, its path, .ini.
metadata_file_of(scope, path) ==
    join((IF scope = FirefoxPrivate THEN SCOPE_DIR_FX_PRIVATE_STR
          ELSE IF scope = FirefoxPublic THEN SCOPE_DIR_FX_PUBLIC_STR
          ELSE SCOPE_DIR_SERVO_PUBLIC_STR) \o MetaDir) \o <<"/">> \o path \o IniSuffix

\* The name of the section of a test: its file name and its variant.
test_name(path, variant) == file_name(path) \o unwrap_or(variant, <<>>)

----------------------------------------------------------------------------
(* The correlation store (main.rs, process_reports::Entry and TestEntry).  *)

EntryDefault == [meta_props |-> None, reported |-> <<>>]
TestEntryDefault == [entry |-> EntryDefault, subtests |-> <<>>]
EntryByCtsPathDefault ==
    [metadata_path |-> None, reported_path |-> None, entry |-> TestEntryDefault]

\* map.entry(key).or_default()
entry_or_default(map, key, dflt) == IF key \in DOMAIN map THEN map[key] ELSE dflt

insert(map, key, value) ==
    [k \in DOMAIN map \cup {key} |-> IF k = key THEN value ELSE map[k]]

\* Loading that keeps the properties an entry already has.
load_test_keeping_first(test_entry, test) ==
    [entry |-> IF test_entry.entry.meta_props.some THEN test_entry.entry
               ELSE [test_entry.entry EXCEPT !.meta_props = Some(test.properties)],
     subtests |->
        [n \in DOMAIN test_entry.subtests \cup DOMAIN test.subtests |->
            IF n \in DOMAIN test_entry.subtests /\ test_entry.subtests[n].meta_props.some
            THEN test_entry.subtests[n]
            ELSE [entry_or_default(test_entry.subtests, n, EntryDefault)
                    EXCEPT !.meta_props = Some(test.subtests[n])]]]

\* Loading one test of a metadata file into its TestEntry.
load_test(test_entry, test) ==
    [entry |-> [test_entry.entry EXCEPT !.meta_props = Some(test.properties)],
     subtests |->
        [n \in DOMAIN test_entry.subtests \cup DOMAIN test.subtests |->
            IF n \in DOMAIN test.subtests
            THEN [entry_or_default(test_entry.subtests, n, EntryDefault)
                    EXCEPT !.meta_props = Some(test.subtests[n])]
            ELSE test_entry.subtests[n]]]

\* The subtest results of one report entry, accumulated in order.
RECURSIVE accumulate_subtests(_, _, _, _)
accumulate_subtests(subtest_entries, platform, build_profile, reported_subtests) ==
    IF reported_subtests = <<>> THEN subtest_entries
    ELSE LET first == Head(reported_subtests)
             old == entry_or_default(subtest_entries, first.subtest_name, EntryDefault)
             now == [old EXCEPT !.reported =
                        accumulate(old.reported, platform, build_profile, first.outcome)]
         IN  accumulate_subtests(insert(subtest_entries, first.subtest_name, now),
                                 platform, build_profile, Tail(reported_subtests))

\* The outcome of a result: a job that may have timed out counts as Timeout.
reported_outcome(result) ==
    IF result.kind = "Complete" THEN result.outcome ELSE "Timeout"

\* Recording one entry of an execution report in its TestEntry.
report_test(test_entry, platform, build_profile, result) ==
    [entry |-> [test_entry.entry EXCEPT !.reported =
                    accumulate(test_entry.entry.reported, platform, build_profile,
                               reported_outcome(result))],
     subtests |-> accumulate_subtests(test_entry.subtests, platform, build_profile,
                                      result.subtests)]

\* load_by_cts_path without the record of the metadata path.
load_by_cts_path_without_path(by_cts_path, test_path, test) ==
    IF cts_path(test_path).some
    THEN LET key == cts_path(test_path).val
             old == entry_or_default(by_cts_path, key, EntryByCtsPathDefault)
         IN  insert(by_cts_path, key, [old EXCEPT !.entry = load_test(old.entry, test)])
    ELSE by_cts_path

\* One metadata test: its entry is found by its CTS key, or by its TestPath.
load_by_cts_path(by_cts_path, test_path, test) ==
    IF cts_path(test_path).some
    THEN LET key == cts_path(test_path).val
             old == entry_or_default(by_cts_path, key, EntryByCtsPathDefault)
         IN  insert(by_cts_path, key,
                    [old EXCEPT !.metadata_path = Some(test_path),
                                !.entry = load_test(old.entry, test)])
    ELSE by_cts_path

load_by_test(by_test, test_path, test) ==
    IF cts_path(test_path).some
    THEN by_test
    ELSE insert(by_test, test_path,
                load_test(entry_or_default(by_test, test_path, TestEntryDefault), test))

\* The duplicate errors one section of a metadata file logs: dupe_err logs
\* once for the section (reported_dupe_already), whether the path or the
\* properties were there before; a subtest met again is logged unless the
\* section already logged.
dupe_errs(by_cts_path, by_test, test_path, test) ==
    LET key == cts_path(test_path)
        old == IF key.some
               THEN entry_or_default(by_cts_path, key.val, EntryByCtsPathDefault)
               ELSE [EntryByCtsPathDefault EXCEPT
                        !.entry = entry_or_default(by_test, test_path, TestEntryDefault)]
        reported_dupe_already ==
            (key.some /\ old.metadata_path.some) \/ old.entry.entry.meta_props.some
        RECURSIVE subtest_errs(_)
        subtest_errs(names) ==
            IF names = {} THEN <<>>
            ELSE LET n == CHOOSE n \in names : TRUE
                 IN  (IF /\ n \in DOMAIN old.entry.subtests
                         /\ old.entry.subtests[n].meta_props.some
                         /\ ~reported_dupe_already
                      THEN <<[test_path |-> test_path, subtest_name |-> Some(n)]>>
                      ELSE <<>>) \o subtest_errs(names \ {n})
    IN  (IF reported_dupe_already
         THEN <<[test_path |-> test_path, subtest_name |-> None]>>
         ELSE <<>>) \o subtest_errs(DOMAIN test.subtests)

\* The entries of one execution report, in order.
RECURSIVE report_by_cts_path(_, _, _)
report_by_cts_path(by_cts_path, run_info, entries) ==
    IF entries = <<>> THEN by_cts_path
    ELSE LET e == Head(entries)
             key == cts_path(e.test_path).val
             old == entry_or_default(by_cts_path, key, EntryByCtsPathDefault)
             next == IF cts_path(e.test_path).some
                     THEN insert(by_cts_path, key,
                            [old EXCEPT !.reported_path = Some(e.test_path),
                                        !.entry = report_test(old.entry, run_info.platform,
                                                    run_info.build_profile, e.result)])
                     ELSE by_cts_path
         IN  report_by_cts_path(next, run_info, Tail(entries))

RECURSIVE report_by_test(_, _, _)
report_by_test(by_test, run_info, entries) ==
    IF entries = <<>> THEN by_test
    ELSE LET e == Head(entries)
             next == IF cts_path(e.test_path).some
                     THEN by_test
                     ELSE insert(by_test, e.test_path,
                            report_test(entry_or_default(by_test, e.test_path, TestEntryDefault),
                                        run_info.platform, run_info.build_profile, e.result))
         IN  report_by_test(next, run_info, Tail(entries))

----------------------------------------------------------------------------
(* Reconciliation of the store into metadata files (main.rs).              *)

using_reports == exec_report_paths # 0

\* The metadata path of a CTS entry wherever there is one.
output_path_preferring_metadata(e) ==
    IF e.metadata_path.some THEN e.metadata_path ELSE e.reported_path

\* The path a CTS entry is written to: the reported one if it differs from
\* the metadata one, else whichever is there.
output_path(e) ==
    IF e.metadata_path.some /\ e.reported_path.some /\ e.metadata_path # e.reported_path
    THEN e.reported_path
    ELSE IF e.metadata_path.some THEN e.metadata_path ELSE e.reported_path

\* Every cell of a subtest's reconciled expectations with an identity in
\* place of the tainting.
tainted_not(properties) == properties

\* Every cell of a subtest's reconciled expectations is tainted.
tainted(properties) ==
    [properties EXCEPT !.expectations =
        Some([p \in Platforms |-> [b \in BuildProfiles |->
                taint_subtest_timeouts_by_suspicion(properties.expectations.val[p][b])]])]

\* No test is removed for its lack of reports.
is_removed_never(test_entry, p) == FALSE

\* A test without reports is removed whatever the preset.
is_removed_always(test_entry, p) ==
    test_entry.entry.reported = <<>> /\ using_reports

\* A test without reports, in a run with reports, is removed unless merging.
is_removed(test_entry, p) ==
    test_entry.entry.reported = <<>> /\ using_reports /\ p # "Merge"

\* recombined with the removal for lack of reports applied to subtests too.
recombined_removing_subtests(test_entry, p) ==
    IF is_removed(test_entry, p) THEN None
    ELSE LET properties == reconcile(test_entry.entry, p, TestOutcome)
             kept == {n \in DOMAIN test_entry.subtests :
                        ~(/\ test_entry.subtests[n].reported = <<>>
                          /\ using_reports
                          /\ p # "Merge")}
             subtests == [n \in kept |->
                            tainted(reconcile(test_entry.subtests[n], p, SubtestOutcome))]
         IN  IF subtests = <<>> /\ properties = TestPropsDefault
             THEN None
             ELSE Some([properties |-> properties, subtests |-> subtests])

\* The closure of filter_map: the reconciled test, or None.
recombined(test_entry, p) ==
    IF is_removed(test_entry, p) THEN None
    ELSE LET properties == reconcile(test_entry.entry, p, TestOutcome)
             subtests == [n \in DOMAIN test_entry.subtests |->
                            tainted(reconcile(test_entry.subtests[n], p, SubtestOutcome))]
         IN  IF subtests = <<>> /\ properties = TestPropsDefault
             THEN None
             ELSE Some([properties |-> properties, subtests |-> subtests])

\* The reconciled tests by output path: those of the CTS entries, chained
\* with the others.
recombined_tests(by_cts_path, by_test, p) ==
    LET cts_keys == {k \in DOMAIN by_cts_path : recombined(by_cts_path[k].entry, p).some}
        others == {t \in DOMAIN by_test : recombined(by_test[t], p).some}
        paths == {output_path(by_cts_path[k]).val : k \in cts_keys} \cup others
    IN  [t \in paths |->
            IF t \in others
            THEN recombined(by_test[t], p).val
            ELSE LET k == CHOOSE k \in cts_keys : output_path(by_cts_path[k]).val = t
                 IN  recombined(by_cts_path[k].entry, p).val]

\* The tests gathered into their metadata files.
gathered(tests) ==
    [f \in {rel_metadata_path(t) : t \in DOMAIN tests} |->
        [t \in {u \in DOMAIN tests : rel_metadata_path(u) = f} |-> tests[t]]]

----------------------------------------------------------------------------
(* Bounded input families.                                                 *)

NonEmptySubsets(S) == SUBSET S \ {{}}

\* Number of test outcomes the matrices of the collapse check draw from.
CollapseOutcomes == 2

CollapseExpectations == NonEmptySubsets(FirstN(TestOutcome, CollapseOutcomes))

Matrices(exps) == [Platforms -> [BuildProfiles -> exps]]

\* Number of applications of the tainting to one expectation.
MaxTaints == 3

\* Number of test outcomes the inputs of reconcile draw from, and number of
\* reported outcomes accumulated into one entry.
ReconcileOutcomes == 2
MaxAccumulated == 2

ReconcileExpectations == NonEmptySubsets(FirstN(TestOutcome, ReconcileOutcomes))

\* Metadata expectations: one value everywhere, or everywhere but in one cell.
ExistingMatrices ==
    {uniform(e) : e \in ReconcileExpectations}
    \cup {[uniform(e) EXCEPT ![c[1]][c[2]] = d] :
            e \in ReconcileExpectations, d \in ReconcileExpectations, c \in CellSet}

ReconcileProps ==
    {None}
    \cup {Some([is_disabled |-> FALSE, expectations |-> None])}
    \cup {Some([is_disabled |-> FALSE, expectations |-> Some(m)]) : m \in ExistingMatrices}
    \cup {Some([is_disabled |-> TRUE, expectations |-> Some(uniform(e))]) :
            e \in ReconcileExpectations}

\* The number of outcomes recorded in a reported map.
RECURSIVE SumOver(_, _)
SumOver(f, S) ==
    IF S = {} THEN 0
    ELSE LET x == CHOOSE y \in S : TRUE IN f[x] + SumOver(f, S \ {x})

RecordedCount(reported) ==
    SumOver([q \in DOMAIN reported |->
                SumOver([b \in DOMAIN reported[q] |-> Cardinality(reported[q][b])],
                        DOMAIN reported[q])],
            DOMAIN reported)


\* Number of metadata tests loaded and of report files given to one run.
MaxMetaTests == 3
MaxReports == 2

\* Two tests with the same CTS key in different scopes and directories, and
\* a test without CTS key.
PrivateCtsTest ==
    [scope |-> FirefoxPrivate, path |-> <<"a", "/", "c", "t", "s", ".", "h", "t", "t", "p", "s", ".", "h", "t", "m", "l">>, variant |-> Some(<<"?", "q", "=", "w", "e", "b", "g", "p", "u", ":", "x">>)]
PublicCtsTest ==
    [scope |-> FirefoxPublic, path |-> <<"b", "/", "c", "t", "s", ".", "h", "t", "t", "p", "s", ".", "h", "t", "m", "l">>, variant |-> Some(<<"?", "q", "=", "w", "e", "b", "g", "p", "u", ":", "x">>)]
OtherTest ==
    [scope |-> FirefoxPublic, path |-> <<"b", "/", "t", ".", "h", "t", "m", "l">>, variant |-> None]
TestPaths == {PrivateCtsTest, PublicCtsTest, OtherTest}

SubtestNames == {"s"}

MetaTestExpectations ==
    [uniform({"Crash"}) EXCEPT !["Windows"]["Debug"] = {"Ok", "Timeout"}]
MetaSubtestExpectations ==
    [uniform({"Pass"}) EXCEPT !["Windows"]["Debug"] = {"Fail", "NotRun"}]

\* The sections a metadata file gives a test: one without properties or
\* subtests, and one disabled, with expectations and a subtest.
MetaSections ==
    {[properties |-> [is_disabled |-> FALSE, expectations |-> None],
      subtests |-> <<>>],
     [properties |-> [is_disabled |-> TRUE, expectations |-> Some(MetaTestExpectations)],
      subtests |-> [n \in SubtestNames |->
                      [is_disabled |-> FALSE,
                       expectations |-> Some(MetaSubtestExpectations)]]]}

\* A section whose name is not that of the test of its file: no TestPath
\* derives from it.
UnderivableMetaTest ==
    [rel_meta_file_path |-> metadata_file_of(OtherTest.scope, OtherTest.path),
     test_name |-> <<"u", ".", "h", "t", "m", "l">>,
     test |-> CHOOSE x \in MetaSections : x.subtests = <<>>]

\* The test sections of the metadata files: the file, the name of the
\* section and what it holds.
MetaTests ==
    {[rel_meta_file_path |-> metadata_file_of(t.scope, t.path),
      test_name |-> test_name(t.path, t.variant),
      test |-> x] : t \in TestPaths, x \in MetaSections}
    \cup {UnderivableMetaTest}

RunInfos ==
    {[platform |-> "Windows", build_profile |-> "Debug"],
     [platform |-> "Linux", build_profile |-> "Optimized"]}

\* TestExecutionResult::Complete and ::JobMaybeTimedOut
Complete(outcome, subtests) ==
    [kind |-> "Complete", outcome |-> outcome, subtests |-> subtests]
JobMaybeTimedOut(subtests) == [kind |-> "JobMaybeTimedOut", subtests |-> subtests]

TestExecutionResults ==
    {Complete("Ok", <<[subtest_name |-> "s", outcome |-> "Fail"]>>),
     JobMaybeTimedOut(<<[subtest_name |-> "s", outcome |-> "Timeout"]>>)}

\* An entry whose test name does not start with '/': no TestPath derives
\* from it.
UnderivableEntry ==
    [test_name |-> OtherTest.path,
     result |-> CHOOSE r \in TestExecutionResults : r.kind = "Complete"]

\* The entries of the reports: the URL of the test and its result.
TestExecutionEntries ==
    {[test_name |-> report_url_of(t.scope, t.path, t.variant), result |-> r] :
        t \in TestPaths, r \in TestExecutionResults}
    \cup {UnderivableEntry}

\* The browser the reports are read for.
browser == "Firefox"

\* The reports of the run hold no entry or one.
ExecutionReports ==
    {[run_info |-> ri, entries |-> es] :
        ri \in RunInfos, es \in {<<>>} \cup {<<e>> : e \in TestExecutionEntries}}

----------------------------------------------------------------------------
(* Idle values of the variables a specification does not use.              *)

NotMade == [op |-> "none", input |-> {}, result |-> None]
ExpIdle == lhs = None /\ rhs = None /\ made = NotMade /\ len_panicked = FALSE
CollapseIdle == outcomes = None /\ normalized = None /\ expanded = None
TaintIdle ==
    taint_input = None /\ expected = None /\ tainted_from = None /\ taint_count = None
ReconcileIdle == entry = None /\ reconciled_once = None /\ reconciled_twice = None
RunIdle ==
    /\ pc = "idle" /\ exec_report_paths = None /\ reports_left = None /\ meta_loaded = None
    /\ entries_by_cts_path = None /\ other_entries_by_test = None
    /\ old_meta_file_paths = None /\ files = None /\ removed_files = None
    /\ loaded = None /\ received = None /\ dupe_log = None
PathIdle == rel_path = None /\ test_variant = None /\ from_report = None /\ from_meta = None
IngestIdle == task = None /\ channel = None /\ sent = None
UrlIdle == url_path = None /\ report_browser = None /\ derived = None

----------------------------------------------------------------------------
(* SpecCollapse: collapse every matrix, then expand the collapsed value.   *)

CollapseInit ==
    /\ outcomes \in {Some(m) : m \in Matrices(CollapseExpectations)}
    /\ normalized = None
    /\ expanded = None
    /\ PRINTED_WARNING = FALSE
    /\ preset = None
    /\ ExpIdle /\ TaintIdle /\ ReconcileIdle /\ RunIdle /\ PathIdle /\ IngestIdle /\ UrlIdle

Collapse ==
    /\ outcomes.some
    /\ ~normalized.some
    /\ normalized' = Some(from_fully_expanded(outcomes.val))
    /\ UNCHANGED <<outcomes, expanded, otherThanCollapse>>

Expand ==
    /\ normalized.some
    /\ ~expanded.some
    /\ expanded' = Some(expand(normalized.val))
    /\ UNCHANGED <<outcomes, normalized, otherThanCollapse>>

CollapseNext == Collapse \/ Expand

SpecCollapse == CollapseInit /\ [][CollapseNext]_vars

\* C1: expanding the collapsed form of a matrix gives the matrix back.
RoundTrip == expanded.some => expanded.val = outcomes.val

\* A matrix reaching the third tier (platforms differ, one of them not uniform
\* across build profiles) has been collapsed and expanded.
RoundTripWitness ==
    /\ expanded.some
    /\ normalized.val.tag = "Expanded"
    /\ \E p \in Platforms : normalized.val.val[p].tag = "Expanded"
    /\ \E p \in Platforms : normalized.val.val[p].tag = "Collapsed"

\* The cells of a matrix, and those of a platform, hold one value.
AllCellsEqual(matrix) ==
    \A c, d \in CellSet : matrix[c[1]][c[2]] = matrix[d[1]][d[2]]
RowUniform(outcomes_by_bp) == \A b, d \in BuildProfiles : outcomes_by_bp[b] = outcomes_by_bp[d]
RowsEqual(matrix) == \A p, q \in Platforms : matrix[p] = matrix[q]

\* C20: the collapsed value is a single value if all cells are equal; else
\* the per-profile breakdown, once for all platforms, if every platform has
\* the same row; else a mapping with an entry for every platform, a single
\* value where the platform's cells are equal and the per-profile breakdown
\* where they are not.
ThreeTiers ==
    normalized.some =>
        LET matrix == outcomes.val
            first == Platform[1]
        IN  IF AllCellsEqual(matrix)
            THEN normalized.val = Collapsed(Collapsed(matrix[first][BuildProfile[1]]))
            ELSE IF RowsEqual(matrix)
            THEN /\ normalized.val = Collapsed(Expanded(matrix[first]))
                 /\ DOMAIN normalized.val.val.val = BuildProfiles
            ELSE /\ normalized.val.tag = "Expanded"
                 /\ DOMAIN normalized.val.val = Platforms
                 /\ \A p \in Platforms :
                        normalized.val.val[p] =
                            IF RowUniform(matrix[p])
                            THEN Collapsed(matrix[p][BuildProfile[1]])
                            ELSE Expanded(matrix[p])

\* A matrix uniform within each platform and different across platforms is
\* collapsed to a mapping by platform without profile nesting.
ThreeTiersWitness ==
    /\ normalized.some
    /\ \A p \in Platforms : RowUniform(outcomes.val[p])
    /\ ~RowsEqual(outcomes.val)
    /\ normalized.val.tag = "Expanded"
    /\ \A p \in Platforms : normalized.val.val[p].tag = "Collapsed"

\* A matrix with the same row, not uniform, for every platform is collapsed
\* to that row.
RowTierWitness ==
    /\ normalized.some
    /\ RowsEqual(outcomes.val)
    /\ ~AllCellsEqual(outcomes.val)
    /\ normalized.val = Collapsed(Expanded(outcomes.val[Platform[1]]))

----------------------------------------------------------------------------
(* SpecExp: every way of building an Expectation<SubtestOutcome>.  lhs and *)
(* rhs hold Expectation values; made holds the last fallible construction. *)

ExpOutcomes == Range(SubtestOutcome)

ExpInit ==
    /\ lhs = expectation_default(SubtestOutcome)
    /\ rhs = expectation_default(SubtestOutcome)
    /\ made = NotMade
    /\ len_panicked = FALSE
    /\ PRINTED_WARNING = FALSE
    /\ preset = None
    /\ CollapseIdle /\ TaintIdle /\ ReconcileIdle /\ RunIdle /\ PathIdle /\ IngestIdle /\ UrlIdle

\* The fallible constructors: the value is kept only when Some is returned.
ExpNew ==
    \E set \in SUBSET ExpOutcomes :
        /\ made' = [op |-> "new", input |-> set, result |-> new(set)]
        /\ lhs' = IF new(set).some THEN new(set).val ELSE lhs
        /\ UNCHANGED <<rhs, len_panicked, otherThanExp>>

ExpIntermittent ==
    \E set \in SUBSET ExpOutcomes :
        /\ made' = [op |-> "intermittent", input |-> set, result |-> intermittent(set)]
        /\ lhs' = IF intermittent(set).some THEN intermittent(set).val ELSE lhs
        /\ UNCHANGED <<rhs, len_panicked, otherThanExp>>

ExpPermanent ==
    \E outcome \in ExpOutcomes :
        /\ lhs' = permanent(outcome)
        /\ UNCHANGED <<rhs, made, len_panicked, otherThanExp>>

ExpDefault ==
    /\ lhs' = expectation_default(SubtestOutcome)
    /\ UNCHANGED <<rhs, made, len_panicked, otherThanExp>>

\* Expectation is Copy: keep the current value as a later right operand.
ExpCopy ==
    /\ rhs' = lhs
    /\ UNCHANGED <<lhs, made, len_panicked, otherThanExp>>

\* lhs |= rhs, for rhs an Expectation
ExpBitOrExpectation ==
    /\ lhs' = bitor(lhs, rhs)
    /\ UNCHANGED <<rhs, made, len_panicked, otherThanExp>>

\* lhs |= outcome
ExpBitOrOutcome ==
    \E outcome \in ExpOutcomes :
        /\ lhs' = bitor(lhs, {outcome})
        /\ UNCHANGED <<rhs, made, len_panicked, otherThanExp>>

\* lhs |= set, for an EnumSet that may be empty
ExpBitOrSet ==
    \E set \in SUBSET ExpOutcomes :
        /\ lhs' = bitor(lhs, set)
        /\ UNCHANGED <<rhs, made, len_panicked, otherThanExp>>

ExpLen ==
    /\ len_panicked' = (~len(lhs).some \/ ~len(rhs).some)
    /\ UNCHANGED <<lhs, rhs, made, otherThanExp>>

ExpNext ==
    \/ ExpNew
    \/ ExpIntermittent
    \/ ExpPermanent
    \/ ExpDefault
    \/ ExpCopy
    \/ ExpBitOrExpectation
    \/ ExpBitOrOutcome
    \/ ExpBitOrSet
    \/ ExpLen

SpecExp == ExpInit /\ [][ExpNext]_vars

\* C2: new fails on the empty set, every constructed Expectation is
\* non-empty, and len never panics.
NonEmptyExpectation ==
    /\ (made.op = "new" /\ made.input = {}) => ~made.result.some
    /\ made.result.some => made.result.val # {}
    /\ lhs # {}
    /\ rhs # {}
    /\ ~len_panicked

\* new was last called on the empty set and failed, while the operands were
\* built by unions into intermittent values.
NonEmptyExpectationWitness ==
    /\ made.op = "new"
    /\ made.input = {}
    /\ ~made.result.some
    /\ Cardinality(lhs) > 1
    /\ Cardinality(rhs) > 1
    /\ lhs # rhs

\* C21: union is monotone: whenever lhs |= rhs is executed, for an
\* Expectation, a single outcome or an outcome set as the right operand, the
\* resulting value is a superset of the left operand and of the right operand.
UnionMonotone ==
    [][/\ ExpBitOrExpectation =>
            /\ is_superset(lhs', lhs)
            /\ is_superset(lhs', rhs)
       /\ \A set \in SUBSET ExpOutcomes :
            (lhs' = bitor(lhs, set) /\ rhs' = rhs) =>
                /\ is_superset(lhs', lhs)
                /\ is_superset(lhs', set)]_vars

\* The left operand is the union of the value new made last and of a copied
\* right operand, neither of which holds the other: only a union made it.
UnionMonotoneWitness ==
    /\ made.op = "new"
    /\ made.result.some
    /\ lhs = bitor(made.result.val, rhs)
    /\ ~is_superset(rhs, made.result.val)
    /\ ~is_superset(made.result.val, rhs)
    /\ is_superset(lhs, rhs)
    /\ is_superset(lhs, made.result.val)

----------------------------------------------------------------------------
(* SpecTaint: the tainting applied again and again to one expectation.     *)

TaintInit ==
    /\ taint_input \in NonEmptySubsets(Range(SubtestOutcome))
    /\ expected = taint_input
    /\ tainted_from = taint_input
    /\ taint_count = 0
    /\ PRINTED_WARNING = FALSE
    /\ preset = None
    /\ ExpIdle /\ CollapseIdle /\ ReconcileIdle /\ RunIdle /\ PathIdle /\ IngestIdle /\ UrlIdle

Taint ==
    /\ taint_count < MaxTaints
    /\ tainted_from' = expected
    /\ expected' = taint_subtest_timeouts_by_suspicion(expected)
    /\ taint_count' = taint_count + 1
    /\ PRINTED_WARNING' = TRUE
    /\ UNCHANGED <<taint_input, otherThanTaint>>

TaintNext == Taint

SpecTaint == TaintInit /\ [][TaintNext]_vars

\* C10: tainting an already tainted expectation changes nothing.
TaintIdempotent == taint_count >= 2 => expected = tainted_from

\* An expectation that the first tainting changed has been tainted twice.
TaintIdempotentWitness ==
    /\ taint_count = 2
    /\ taint_input = {"Fail", "NotRun"}
    /\ expected = {"Fail", "Timeout", "NotRun"}

----------------------------------------------------------------------------
(* SpecReconcile: reconcile as a function of an entry and a preset.  The   *)
(* reported map of the entry is built by accumulate.                       *)

ReconcileInit ==
    /\ entry \in {[meta_props |-> m, reported |-> <<>>] : m \in ReconcileProps}
    /\ preset \in ReportProcessingPreset
    /\ reconciled_once = None
    /\ reconciled_twice = None
    /\ PRINTED_WARNING = FALSE
    /\ ExpIdle /\ CollapseIdle /\ TaintIdle /\ RunIdle /\ PathIdle /\ IngestIdle /\ UrlIdle

Accumulate ==
    /\ ~reconciled_once.some
    /\ RecordedCount(entry.reported) < MaxAccumulated
    /\ \E c \in CellSet, o \in FirstN(TestOutcome, ReconcileOutcomes) :
         entry' = [entry EXCEPT !.reported = accumulate(entry.reported, c[1], c[2], o)]
    /\ UNCHANGED <<preset, reconciled_once, reconciled_twice, otherThanReconcile>>

ReconcileOnce ==
    /\ ~reconciled_once.some
    /\ reconciled_once' = Some(reconcile(entry, preset, TestOutcome))
    /\ UNCHANGED <<entry, preset, reconciled_twice, otherThanReconcile>>

\* The result becomes the metadata of a second run over the same reports.
ReconcileTwice ==
    /\ reconciled_once.some
    /\ ~reconciled_twice.some
    /\ reconciled_twice' =
         Some(reconcile([meta_props |-> reconciled_once, reported |-> entry.reported],
                        preset, TestOutcome))
    /\ UNCHANGED <<entry, preset, reconciled_once, otherThanReconcile>>

ReconcileNext == Accumulate \/ ReconcileOnce \/ ReconcileTwice

SpecReconcile == ReconcileInit /\ [][ReconcileNext]_vars

\* The inputs and the result of the first application, cell by cell.
HasExisting == entry.meta_props.some /\ entry.meta_props.val.expectations.some
Existing(c) == entry.meta_props.val.expectations.val[c[1]][c[2]]
Reported(c) == reported_at(entry.reported, c[1], c[2])
Result(c) == reconciled_once.val.expectations.val[c[1]][c[2]]

Done == reconciled_once.some
Default == expectation_default(TestOutcome)
ReportedOr(c, dflt) == IF Reported(c).some THEN Reported(c).val ELSE dflt

\* The properties reconcile starts from: those of the metadata, or the
\* default ones.
Before == IF entry.meta_props.some THEN entry.meta_props.val ELSE TestPropsDefault

\* C30: under every preset the properties reconcile returns are those of the
\* metadata with a new expectation: the disabled flag, the only other
\* property, is as before, also when the result is reconciled again; for an
\* entry without metadata they are the default properties with the
\* reconciled expectation, which is what was reported, the default outcome
\* elsewhere.
OnlyExpectationsReconciled ==
    /\ Done =>
        /\ DOMAIN reconciled_once.val = DOMAIN Before
        /\ \A property \in DOMAIN Before \ {"expectations"} :
            reconciled_once.val[property] = Before[property]
        /\ reconciled_once.val.expectations.some
        /\ ~entry.meta_props.some =>
            /\ reconciled_once.val.is_disabled = TestPropsDefault.is_disabled
            /\ \A c \in CellSet : Result(c) = ReportedOr(c, Default)
    /\ reconciled_twice.some =>
        /\ reconciled_twice.val.is_disabled = Before.is_disabled
        /\ reconciled_twice.val.expectations.some

\* reconcile gave a disabled test a new expectation and left it disabled.
OnlyExpectationsReconciledWitness ==
    /\ Done
    /\ entry.meta_props.some
    /\ entry.meta_props.val.is_disabled
    /\ reconciled_once.val.is_disabled
    /\ reconciled_once.val.expectations # entry.meta_props.val.expectations

\* C3: under Merge every cell of the result contains the existing cell.
MergeNeverShrinks ==
    (Done /\ preset = "Merge" /\ HasExisting) =>
        \A c \in CellSet : Existing(c) \subseteq Result(c)

\* Merge met a cell whose report is not contained in the existing cell, and
\* a cell without report.
MergeNeverShrinksWitness ==
    /\ Done /\ preset = "Merge" /\ HasExisting
    /\ \E c \in CellSet : Reported(c).some /\ ~(Reported(c).val \subseteq Existing(c))
    /\ \E c \in CellSet : ~Reported(c).some

\* C4 as stated: under Merge every cell is the union of the existing cell, or
\* of the default outcome when there is no existing expectation, with the
\* reported set if any.
MergeIsUnionWithExistingOrDefault ==
    (Done /\ preset = "Merge") =>
        \A c \in CellSet :
            Result(c) = (IF HasExisting THEN Existing(c) ELSE Default)
                            \cup ReportedOr(c, {})

\* C4 as amended: with an existing expectation every cell is the union of the
\* existing cell with the reported set if any; without one, a reported cell is
\* exactly the reported set and an unreported cell is the default outcome.
MergeResult ==
    (Done /\ preset = "Merge") =>
        \A c \in CellSet :
            Result(c) = IF HasExisting
                        THEN Existing(c) \cup ReportedOr(c, {})
                        ELSE ReportedOr(c, Default)

\* Merge ran without existing expectation on a cell reported without the
\* default outcome, and on an unreported cell.
MergeResultWitness ==
    /\ Done /\ preset = "Merge" /\ ~HasExisting
    /\ \E c \in CellSet : Reported(c).some /\ Reported(c).val \cap Default = {}
    /\ \E c \in CellSet : ~Reported(c).some

\* C5: under ResetContradictory a cell whose existing value does not contain
\* its report becomes the report, any other cell keeps the existing value;
\* without existing expectation every cell is its report, or the default.
ResetContradictoryResult ==
    (Done /\ preset = "ResetContradictory") =>
        \A c \in CellSet :
            Result(c) = IF HasExisting
                        THEN (IF Reported(c).some /\ ~(Reported(c).val \subseteq Existing(c))
                              THEN Reported(c).val
                              ELSE Existing(c))
                        ELSE ReportedOr(c, Default)

\* ResetContradictory met a contradicted cell, a cell whose report the
\* existing value strictly contains, and a cell without report.
ResetContradictoryResultWitness ==
    /\ Done /\ preset = "ResetContradictory" /\ HasExisting
    /\ \E c \in CellSet : Reported(c).some /\ ~(Reported(c).val \subseteq Existing(c))
    /\ \E c \in CellSet : Reported(c).some /\ Reported(c).val \subseteq Existing(c)
                            /\ Reported(c).val # Existing(c)
    /\ \E c \in CellSet : ~Reported(c).some

\* C6: under ResetAll every cell is its accumulated report, or the default
\* outcome when it has none, whatever the existing expectation.
ResetAllResult ==
    (Done /\ preset = "ResetAll") =>
        \A c \in CellSet : Result(c) = ReportedOr(c, Default)

\* ResetAll discarded an existing value other than the default in an
\* unreported cell, and replaced one in a reported cell.
ResetAllResultWitness ==
    /\ Done /\ preset = "ResetAll" /\ HasExisting
    /\ \E c \in CellSet : ~Reported(c).some /\ Existing(c) # Default
    /\ \E c \in CellSet : Reported(c).some /\ Reported(c).val # Existing(c)

\* C7: reconciling the result again with the same reports under
\* ResetContradictory gives the same properties.
ResetContradictoryIdempotent ==
    (reconciled_twice.some /\ preset = "ResetContradictory") =>
        reconciled_twice.val = reconciled_once.val

\* The first application replaced a contradicted cell, and the second one
\* has run.
ResetContradictoryIdempotentWitness ==
    /\ reconciled_twice.some /\ preset = "ResetContradictory" /\ HasExisting
    /\ \E c \in CellSet : Result(c) # Existing(c)
    /\ \E c \in CellSet : Reported(c).some /\ Result(c) = Existing(c)

----------------------------------------------------------------------------
(* Spec: one run of update-expected.                                       *)

Init ==
    /\ pc = "metadata"
    /\ preset \in ReportProcessingPreset
    /\ exec_report_paths \in 0..MaxReports
    /\ reports_left = exec_report_paths
    /\ meta_loaded = 0
    /\ entries_by_cts_path = <<>>
    /\ other_entries_by_test = <<>>
    /\ old_meta_file_paths = {}
    /\ files = <<>>
    /\ removed_files = {}
    /\ loaded = <<>>
    /\ received = <<>>
    /\ dupe_log = <<>>
    /\ PRINTED_WARNING = FALSE
    /\ ExpIdle /\ CollapseIdle /\ TaintIdle /\ ReconcileIdle /\ PathIdle /\ IngestIdle /\ UrlIdle

\* The body of the loop over the tests of the metadata files: one test is
\* recorded in the store.
RecordMetadataTest(m) ==
    LET test_path == from_metadata_test(m.rel_meta_file_path, m.test_name)
    IN  IF ~test_path.ok
        THEN \* unwrap() of an Err: the run panics
             /\ pc' = "panicked"
             /\ UNCHANGED <<entries_by_cts_path, other_entries_by_test,
                            old_meta_file_paths, dupe_log, loaded>>
        ELSE /\ entries_by_cts_path' =
                    load_by_cts_path(entries_by_cts_path, test_path.val, m.test)
             /\ other_entries_by_test' =
                    load_by_test(other_entries_by_test, test_path.val, m.test)
             /\ old_meta_file_paths' =
                    old_meta_file_paths \cup {rel_metadata_path(test_path.val)}
             /\ dupe_log' = dupe_log \o dupe_errs(entries_by_cts_path,
                                        other_entries_by_test, test_path.val, m.test)
             /\ loaded' = Append(loaded, [test_path |-> test_path.val, test |-> m.test])
             /\ pc' = pc

\* One test of a metadata file is loaded into the store.
LoadMetadataTest ==
    /\ pc = "metadata"
    /\ meta_loaded < MaxMetaTests
    /\ \E m \in MetaTests : RecordMetadataTest(m)
    /\ meta_loaded' = meta_loaded + 1
    /\ UNCHANGED <<preset, exec_report_paths, reports_left, files, removed_files,
                   received, PRINTED_WARNING, otherThanRun>>

\* All metadata is loaded; the report files are handed to the workers.
StartReports ==
    /\ pc = "metadata"
    /\ pc' = "reports"
    /\ UNCHANGED <<preset, exec_report_paths, reports_left, meta_loaded,
                   entries_by_cts_path, other_entries_by_test, old_meta_file_paths,
                   files, removed_files, loaded, received, dupe_log,
                   PRINTED_WARNING, otherThanRun>>

\* The body of the collector's loop for a decoded report: every entry is
\* recorded in the store.
RecordReport(r) ==
    LET test_paths == [i \in 1..Len(r.entries) |->
                        from_execution_report(r.entries[i].test_name, browser)]
        entries == [i \in 1..Len(r.entries) |->
                        [test_path |-> test_paths[i].val,
                         result |-> r.entries[i].result]]
    IN  IF \E i \in 1..Len(r.entries) : ~test_paths[i].ok
        THEN \* unwrap() of an Err: the run panics
             /\ pc' = "panicked"
             /\ UNCHANGED <<entries_by_cts_path, other_entries_by_test, received>>
        ELSE /\ entries_by_cts_path' =
                    report_by_cts_path(entries_by_cts_path, r.run_info, entries)
             /\ other_entries_by_test' =
                    report_by_test(other_entries_by_test, r.run_info, entries)
             /\ received' = Append(received, [run_info |-> r.run_info,
                                              entries |-> entries])
             /\ pc' = pc

\* The collector receives a decoded report and records its entries.
ReceiveReport ==
    /\ pc = "reports"
    /\ reports_left > 0
    /\ \E r \in ExecutionReports : RecordReport(r)
    /\ reports_left' = reports_left - 1
    /\ UNCHANGED <<preset, exec_report_paths, meta_loaded, old_meta_file_paths,
                   files, removed_files, loaded, dupe_log, PRINTED_WARNING, otherThanRun>>

\* The collector receives the failure of a report and goes on.
ReceiveFailureSkipped ==
    /\ pc = "reports"
    /\ reports_left > 0
    /\ pc' = pc
    /\ reports_left' = reports_left - 1
    /\ UNCHANGED <<preset, exec_report_paths, meta_loaded, entries_by_cts_path,
                   other_entries_by_test, old_meta_file_paths, files, removed_files,
                   loaded, received, dupe_log, PRINTED_WARNING, otherThanRun>>

\* The collector receives the failure of a report: the run exits.
ReceiveFailure ==
    /\ pc = "reports"
    /\ reports_left > 0
    /\ pc' = "failed"
    /\ reports_left' = reports_left - 1
    /\ UNCHANGED <<preset, exec_report_paths, meta_loaded, entries_by_cts_path,
                   other_entries_by_test, old_meta_file_paths, files, removed_files,
                   loaded, received, dupe_log, PRINTED_WARNING, otherThanRun>>

\* The channel is exhausted: every entry is reconciled, the tests are
\* gathered into files, metadata files left without test are removed.
Reconcile ==
    /\ pc = "reports"
    /\ reports_left = 0
    /\ IF \E k \in DOMAIN entries_by_cts_path : ~output_path(entries_by_cts_path[k]).some
       THEN /\ pc' = "panicked"
            /\ UNCHANGED <<files, removed_files, PRINTED_WARNING>>
       ELSE /\ pc' = "done"
            /\ files' = gathered(recombined_tests(entries_by_cts_path,
                                                  other_entries_by_test, preset))
            /\ removed_files' = old_meta_file_paths \ DOMAIN files'
            /\ PRINTED_WARNING' =
                (\/ PRINTED_WARNING
                 \/ \E k \in DOMAIN entries_by_cts_path :
                        /\ ~is_removed(entries_by_cts_path[k].entry, preset)
                        /\ entries_by_cts_path[k].entry.subtests # <<>>
                 \/ \E t \in DOMAIN other_entries_by_test :
                        /\ ~is_removed(other_entries_by_test[t], preset)
                        /\ other_entries_by_test[t].subtests # <<>>)
    /\ UNCHANGED <<preset, exec_report_paths, reports_left, meta_loaded,
                   entries_by_cts_path, other_entries_by_test, old_meta_file_paths,
                   loaded, received, dupe_log, otherThanRun>>

Next == LoadMetadataTest \/ StartReports \/ ReceiveReport \/ ReceiveFailure \/ Reconcile

Spec == Init /\ [][Next]_vars

\* The identities of the store, each with the path it is written to.
StoredTests ==
    {[path |-> output_path(entries_by_cts_path[k]).val,
      test_entry |-> entries_by_cts_path[k].entry] : k \in DOMAIN entries_by_cts_path}
    \cup {[path |-> t, test_entry |-> other_entries_by_test[t]] :
            t \in DOMAIN other_entries_by_test}

\* The test written for a path, if any file holds it.
Written(t) ==
    IF /\ rel_metadata_path(t) \in DOMAIN files
       /\ t \in DOMAIN files[rel_metadata_path(t)]
    THEN Some(files[rel_metadata_path(t)][t])
    ELSE None

Unreported == {st \in StoredTests : st.test_entry.entry.reported = <<>>}

\* The expectations the metadata gave an entry, the default where it gave none.
ExistingOf(e, Out) ==
    LET meta_props == unwrap_or(e.meta_props, TestPropsDefault)
    IN  unwrap_or(meta_props.expectations, uniform(expectation_default(Out)))

\* C8: in a run given at least one report, a test no report mentions is,
\* under Merge, written with its properties as the metadata had them, the
\* expectation of every cell unchanged, and with all its subtests; under
\* ResetAll and ResetContradictory no file holds the test or its subtests.
UnreportedKeptOrDropped ==
    (pc = "done" /\ using_reports) =>
        \A st \in Unreported :
            IF preset = "Merge"
            THEN /\ Written(st.path).some
                 /\ LET meta_props == unwrap_or(st.test_entry.entry.meta_props, TestPropsDefault)
                        properties == Written(st.path).val.properties
                    IN  /\ properties.is_disabled = meta_props.is_disabled
                        /\ properties.expectations.some
                        /\ \A c \in CellSet :
                            get(properties.expectations.val, c[1], c[2])
                                = get(ExistingOf(st.test_entry.entry, TestOutcome), c[1], c[2])
                 /\ DOMAIN Written(st.path).val.subtests = DOMAIN st.test_entry.subtests
            ELSE ~Written(st.path).some

\* A Merge run with a report about one test has kept another, unreported
\* test that had expectations and a subtest.
UnreportedKeptOrDroppedWitness ==
    /\ pc = "done"
    /\ using_reports
    /\ preset = "Merge"
    /\ \E st \in StoredTests : st.test_entry.entry.reported # <<>>
    /\ \E st \in Unreported :
        /\ st.test_entry.entry.meta_props.some
        /\ st.test_entry.entry.meta_props.val.expectations.some
        /\ st.test_entry.subtests # <<>>
        /\ Written(st.path).some

\* A ResetContradictory run with a report about one test has dropped
\* another, unreported test, and removed its file.
UnreportedDroppedWitness ==
    /\ pc = "done"
    /\ using_reports
    /\ preset = "ResetContradictory"
    /\ \E st \in StoredTests : st.test_entry.entry.reported # <<>>
    /\ \E st \in Unreported :
        /\ st.test_entry.entry.meta_props.val.expectations.some
        /\ st.test_entry.subtests # <<>>
        /\ ~Written(st.path).some
        /\ rel_metadata_path(st.path) \in removed_files

\* The tests of the store that have metadata and no reported outcome.
UnreportedWithMetadata == {st \in Unreported : st.test_entry.entry.meta_props.some}

\* A test is written with the default outcome in every cell.
WrittenWithDefaults(t) ==
    /\ Written(t).some
    /\ Written(t).val.properties.expectations.some
    /\ \A c \in CellSet :
        get(Written(t).val.properties.expectations.val, c[1], c[2])
            = expectation_default(TestOutcome)

\* C25, as stated: under ResetAll a test with metadata and no reported
\* outcome is written with the default outcome in every cell, whether the
\* run was given no report or reports about other tests only.
ResetAllKeepsUnreported ==
    (pc = "done" /\ preset = "ResetAll") =>
        \A st \in UnreportedWithMetadata : WrittenWithDefaults(st.path)

\* C25: under ResetAll a test with metadata and no reported outcome is
\* written with the default outcome in every cell, whatever the metadata
\* expected, if the run was given no report; if the run was given reports,
\* which were all about other tests, no file holds the test.
ResetAllKeepsUnreportedWithoutReports ==
    (pc = "done" /\ preset = "ResetAll") =>
        \A st \in UnreportedWithMetadata :
            IF using_reports
            THEN ~Written(st.path).some
            ELSE WrittenWithDefaults(st.path)

\* A ResetAll run without reports has written a test with the default
\* outcome in every cell, where its metadata expected other outcomes.
ResetAllKeepsUnreportedWithoutReportsWitness ==
    /\ pc = "done"
    /\ preset = "ResetAll"
    /\ ~using_reports
    /\ \E st \in UnreportedWithMetadata :
        /\ st.test_entry.entry.meta_props.val.expectations.some
        /\ st.test_entry.entry.meta_props.val.expectations.val
                # uniform(expectation_default(TestOutcome))
        /\ WrittenWithDefaults(st.path)

\* C26: whatever metadata was loaded and whatever reports were received,
\* every record of entries_by_cts_path has its metadata path or its reported
\* path, so it has an output path and the reconciliation ends without the
\* panic of a record without path.
CtsRecordHasPath ==
    /\ [](\A k \in DOMAIN entries_by_cts_path :
            /\ \/ entries_by_cts_path[k].metadata_path.some
               \/ entries_by_cts_path[k].reported_path.some
            /\ output_path(entries_by_cts_path[k]).some)
    /\ [][Reconcile => pc' = "done"]_vars

\* The reconciliation went through with a record that reports alone made,
\* and so without metadata path.
CtsRecordHasPathWitness ==
    /\ pc = "done"
    /\ \E k \in DOMAIN entries_by_cts_path :
        /\ ~entries_by_cts_path[k].metadata_path.some
        /\ entries_by_cts_path[k].reported_path.some
        /\ \E f \in DOMAIN files :
            entries_by_cts_path[k].reported_path.val \in DOMAIN files[f]

\* The cells of a written matrix hold what was reported for them.
CoversReported(expectations, reported) ==
    /\ expectations.some
    /\ \A c \in CellSet :
        reported_at(reported, c[1], c[2]).some =>
            is_superset(get(expectations.val, c[1], c[2]),
                        reported_at(reported, c[1], c[2]).val)

\* C27: under every preset, with or without expectations in the metadata, a
\* test with a reported outcome is written, and every cell written for it,
\* and for each of its subtests after the tainting, holds every outcome
\* reported for that cell.
ReportedNeverUnexpected ==
    pc = "done" =>
        \A st \in StoredTests :
            st.test_entry.entry.reported # <<>> =>
                /\ Written(st.path).some
                /\ CoversReported(Written(st.path).val.properties.expectations,
                                  st.test_entry.entry.reported)
                /\ \A n \in DOMAIN st.test_entry.subtests :
                    /\ n \in DOMAIN Written(st.path).val.subtests
                    /\ CoversReported(Written(st.path).val.subtests[n].expectations,
                                      st.test_entry.subtests[n].reported)

\* A Merge run has written, for a test whose metadata had expectations, a
\* cell that holds more than what was reported for it, and for a subtest
\* reported as Timeout a cell that the tainting widened to NotRun.
ReportedNeverUnexpectedWitness ==
    /\ pc = "done"
    /\ preset = "Merge"
    /\ \E st \in StoredTests :
        /\ st.test_entry.entry.meta_props.some
        /\ st.test_entry.entry.meta_props.val.expectations.some
        /\ Written(st.path).some
        /\ \E c \in CellSet :
            /\ reported_at(st.test_entry.entry.reported, c[1], c[2]).some
            /\ get(Written(st.path).val.properties.expectations.val, c[1], c[2])
                    # reported_at(st.test_entry.entry.reported, c[1], c[2]).val
        /\ \E n \in DOMAIN st.test_entry.subtests : \E c \in CellSet :
            /\ reported_at(st.test_entry.subtests[n].reported, c[1], c[2]).some
            /\ "Timeout" \in reported_at(st.test_entry.subtests[n].reported, c[1], c[2]).val
            /\ "NotRun" \in get(Written(st.path).val.subtests[n].expectations.val, c[1], c[2])

\* C28: a run that received the failure of a report has written no file
\* and removed none, whatever it had loaded and received before, and stays
\* so; a run that reconciled has received every one of its reports decoded.
NothingWrittenOnFailure ==
    /\ [](pc = "failed" => files = <<>> /\ removed_files = {})
    /\ [](pc = "done" => Len(received) = exec_report_paths)
    /\ [][pc = "failed" => UNCHANGED <<pc, files, removed_files>>]_vars
    /\ [][ReceiveFailure => pc' = "failed" /\ UNCHANGED <<files, removed_files>>]_vars

\* The run failed on its second report, after metadata was loaded and the
\* first report was recorded in the store; no file is written or removed.
NothingWrittenOnFailureWitness ==
    /\ pc = "failed"
    /\ loaded # <<>>
    /\ old_meta_file_paths # {}
    /\ received # <<>>
    /\ \E st \in StoredTests : st.test_entry.entry.reported # <<>>
    /\ files = <<>>
    /\ removed_files = {}

\* C9: every cell written for a subtest holds both of Timeout and NotRun or
\* neither, holds all that reconcile gave it, and is what reconcile gave it
\* if that held neither; the properties written for a test are those
\* reconcile gave, with NotRun in no cell.
SubtestsTainted ==
    pc = "done" =>
        \A st \in StoredTests :
            Written(st.path).some =>
                LET written == Written(st.path).val
                IN  /\ \A n \in DOMAIN written.subtests : \A c \in CellSet :
                        LET cell == get(written.subtests[n].expectations.val, c[1], c[2])
                            rec == get(reconciled(st.test_entry.subtests[n], preset,
                                                  SubtestOutcome), c[1], c[2])
                        IN  /\ ("Timeout" \in cell) <=> ("NotRun" \in cell)
                            /\ rec \subseteq cell
                            /\ rec \cap TimeoutOrNotRun = {} => cell = rec
                    /\ written.properties = reconcile(st.test_entry.entry, preset, TestOutcome)
                    /\ \A c \in CellSet :
                        "NotRun" \notin get(written.properties.expectations.val, c[1], c[2])

\* A written test expects Timeout in a cell, untainted, and a subtest of it
\* has a cell where reconcile gave one of Timeout and NotRun and the file
\* holds both.
SubtestsTaintedWitness ==
    /\ pc = "done"
    /\ \E st \in StoredTests :
        /\ Written(st.path).some
        /\ \E c \in CellSet :
            "Timeout" \in get(Written(st.path).val.properties.expectations.val, c[1], c[2])
        /\ \E n \in DOMAIN Written(st.path).val.subtests : \E c \in CellSet :
            LET cell == get(Written(st.path).val.subtests[n].expectations.val, c[1], c[2])
                rec == get(reconciled(st.test_entry.subtests[n], preset, SubtestOutcome),
                           c[1], c[2])
            IN  /\ Cardinality(rec \cap TimeoutOrNotRun) = 1
                /\ TimeoutOrNotRun \subseteq cell
                /\ cell # rec

\* The store after a sequence of metadata tests is loaded into it, and
\* after a sequence of reports is received.
RECURSIVE loaded_into(_, _)
loaded_into(store, tests) ==
    IF tests = <<>> THEN store
    ELSE loaded_into(
            [by_cts_path |-> load_by_cts_path(store.by_cts_path, Head(tests).test_path,
                                              Head(tests).test),
             by_test |-> load_by_test(store.by_test, Head(tests).test_path, Head(tests).test)],
            Tail(tests))

RECURSIVE received_into(_, _)
received_into(store, reports) ==
    IF reports = <<>> THEN store
    ELSE received_into(
            [by_cts_path |-> report_by_cts_path(store.by_cts_path, Head(reports).run_info,
                                                Head(reports).entries),
             by_test |-> report_by_test(store.by_test, Head(reports).run_info,
                                        Head(reports).entries)],
            Tail(reports))

EmptyStore == [by_cts_path |-> <<>>, by_test |-> <<>>]
Store == [by_cts_path |-> entries_by_cts_path, by_test |-> other_entries_by_test]

Orders(n) == {f \in [1..n -> 1..n] : \A i, j \in 1..n : f[i] = f[j] => i = j}
Permuted(seq, f) == [i \in 1..Len(seq) |-> seq[f[i]]]

\* C11: the store the collector has built is the store it would have built
\* had it received the same reports in any other order: the same reported
\* matrices, and for each CTS key the same metadata and reported path.
ReceiveOrderIrrelevant ==
    pc \in {"reports", "done"} =>
        \A f \in Orders(Len(received)) :
            received_into(loaded_into(EmptyStore, loaded), Permuted(received, f)) = Store

\* C12: the run ends in failure over a failed report only once the collector
\* has received every result of the channel, never at the first failed one.
FailureOnlyAfterDrain == pc = "failed" => reports_left = 0

----------------------------------------------------------------------------
(* SpecPath: one test, its TestPath derived from both sides in each scope. *)

TestScopes == {FirefoxPrivate, FirefoxPublic, ServoPublic}

\* Lengths of the relative paths and of the variants (after their '?').
MaxPathLen == 3
MaxVariantLen == 2

PathChars == {"a", "/"}
VariantChars == {"a", "/", "?"}

Strings(chars, n) == UNION {[1..k -> chars] : k \in 0..n}

\* Relative paths: components that are not empty, separated by '/'.
RelPaths == {str \in Strings(PathChars, MaxPathLen) : str # <<>> /\ split(str) = components(str)}

\* No variant, or '?' and what follows it.
Variants == {None} \cup {Some(<<"?">> \o str) : str \in Strings(VariantChars, MaxVariantLen)}

PathInit ==
    /\ rel_path \in RelPaths
    /\ test_variant \in Variants
    /\ from_report = [scope \in TestScopes |-> None]
    /\ from_meta = [scope \in TestScopes |-> None]
    /\ PRINTED_WARNING = FALSE
    /\ preset = None
    /\ ExpIdle /\ CollapseIdle /\ TaintIdle /\ ReconcileIdle /\ RunIdle /\ IngestIdle /\ UrlIdle

DeriveFromReport ==
    /\ \E scope \in TestScopes :
        /\ ~from_report[scope].some
        /\ from_report' = [from_report EXCEPT ![scope] =
                Some(from_execution_report(report_url_of(scope, rel_path, test_variant),
                                           scope.browser))]
    /\ UNCHANGED <<rel_path, test_variant, from_meta, otherThanPath>>

DeriveFromMetadata ==
    /\ \E scope \in TestScopes :
        /\ ~from_meta[scope].some
        /\ from_meta' = [from_meta EXCEPT ![scope] =
                Some(from_metadata_test(metadata_file_of(scope, rel_path),
                                        test_name(rel_path, test_variant)))]
    /\ UNCHANGED <<rel_path, test_variant, from_report, otherThanPath>>

PathNext == DeriveFromReport \/ DeriveFromMetadata

SpecPath == PathInit /\ [][PathNext]_vars

\* C13: in every scope, for every relative path and every variant, the
\* TestPath derived from the report URL and the one derived from the
\* metadata file and section name are the same: that scope, that path, that
\* variant.
DerivationsAgree ==
    \A scope \in TestScopes :
        (from_report[scope].some /\ from_meta[scope].some) =>
            /\ from_report[scope].val.ok
            /\ from_meta[scope].val.ok
            /\ from_report[scope].val.val = from_meta[scope].val.val
            /\ from_meta[scope].val.val =
                    [scope |-> scope, path |-> rel_path, variant |-> test_variant]

\* The derivations agree for the variants without '/'.
DerivationsAgreeWithoutSlash ==
    (test_variant.some => ~contains(test_variant.val, "/")) => DerivationsAgree

FirefoxScopes == {FirefoxPrivate, FirefoxPublic}

\* C14: a metadata file under the private root derives the private scope and
\* one under the public root the public scope; a Firefox URL under /_mozilla/
\* derives the private scope and another the public scope; so no TestPath
\* derived for the private test equals one derived for the public test of
\* the same path and variant.
ScopesNotConfused ==
    /\ \A scope \in FirefoxScopes :
        /\ from_meta[scope].some =>
                from_meta[scope].val.ok /\ from_meta[scope].val.val.scope = scope
        /\ from_report[scope].some =>
                from_report[scope].val.ok /\ from_report[scope].val.val.scope = scope
    /\ \A private \in {from_meta[FirefoxPrivate], from_report[FirefoxPrivate]} :
       \A public \in {from_meta[FirefoxPublic], from_report[FirefoxPublic]} :
            (private.some /\ public.some) => private.val # public.val

\* Both derivations are made for the private and for the public test of a
\* path within a directory, with a variant.
ScopesNotConfusedWitness ==
    /\ \A scope \in FirefoxScopes : from_meta[scope].some /\ from_report[scope].some
    /\ test_variant.some
    /\ contains(rel_path, "/")
    /\ from_meta[FirefoxPrivate].val.val.path = from_report[FirefoxPublic].val.val.path

\* The identity of a test: its CTS key if it has one, else its TestPath.
identity(test_path) ==
    IF cts_path(test_path).some
    THEN [cts_path |-> cts_path(test_path).val]
    ELSE [test_path |-> test_path]

by_key(id) == "cts_path" \in DOMAIN id

\* The TestEntry the store holds for an identity.
TestEntryOf(id) ==
    IF by_key(id) THEN entries_by_cts_path[id.cts_path].entry
    ELSE other_entries_by_test[id.test_path]

\* The indices of the loaded tests of an identity.
LoadsOf(id) == {i \in 1..Len(loaded) : identity(loaded[i].test_path) = id}
LoadedIdentities == {identity(loaded[i].test_path) : i \in 1..Len(loaded)}
FirstOf(indices) == CHOOSE i \in indices : \A j \in indices : i <= j
LastOf(indices) == CHOOSE i \in indices : \A j \in indices : j <= i

\* The metadata side of the store for an identity: the path (of a CTS
\* record), the properties of the test and those of its subtests.
MetadataSide(id) ==
    LET test_entry == TestEntryOf(id)
    IN  [path |-> IF by_key(id) THEN entries_by_cts_path[id.cts_path].metadata_path
                  ELSE Some(id.test_path),
         properties |-> test_entry.entry.meta_props,
         subtests |-> [n \in DOMAIN test_entry.subtests |->
                            test_entry.subtests[n].meta_props]]

Stored(id) ==
    IF by_key(id) THEN id.cts_path \in DOMAIN entries_by_cts_path
    ELSE id.test_path \in DOMAIN other_entries_by_test

\* No report has been received yet, nor any failure of one.
BeforeReports == reports_left = exec_report_paths

\* A TestPath derived from every metadata section met so far.
AllDerived == meta_loaded = Len(loaded)

\* C15, as stated: the metadata side of an identity is the path and the
\* properties of the first entry loaded for it, and loading fails no run.
DuplicateKeepsFirst ==
    /\ (BeforeReports /\ AllDerived) => pc \in {"metadata", "reports", "done"}
    /\ pc = "metadata" =>
        \A id \in LoadedIdentities :
            /\ Stored(id)
            /\ MetadataSide(id).path = Some(loaded[FirstOf(LoadsOf(id))].test_path)
            /\ MetadataSide(id).properties
                    = Some(loaded[FirstOf(LoadsOf(id))].test.properties)

\* C15, amended: the metadata side of an identity is the path and the
\* properties of the last entry loaded for it, each subtest has the
\* properties the last entry naming it gave, and loading fails no run.
DuplicateKeepsLast ==
    /\ (BeforeReports /\ AllDerived) => pc \in {"metadata", "reports", "done"}
    /\ pc = "metadata" =>
        \A id \in LoadedIdentities :
            /\ Stored(id)
            /\ MetadataSide(id).path = Some(loaded[LastOf(LoadsOf(id))].test_path)
            /\ MetadataSide(id).properties
                    = Some(loaded[LastOf(LoadsOf(id))].test.properties)
            /\ \A n \in SubtestNames :
                LET naming == {i \in LoadsOf(id) : n \in DOMAIN loaded[i].test.subtests}
                IN  IF naming = {} THEN n \notin DOMAIN MetadataSide(id).subtests
                    ELSE /\ n \in DOMAIN MetadataSide(id).subtests
                         /\ MetadataSide(id).subtests[n]
                                = Some(loaded[LastOf(naming)].test.subtests[n])

\* Two entries with different properties, under different paths, have been
\* loaded for one identity.
DuplicateKeepsLastWitness ==
    /\ pc = "metadata"
    /\ \E id \in LoadedIdentities :
        /\ Cardinality(LoadsOf(id)) >= 2
        /\ loaded[FirstOf(LoadsOf(id))].test # loaded[LastOf(LoadsOf(id))].test
        /\ loaded[FirstOf(LoadsOf(id))].test_path # loaded[LastOf(LoadsOf(id))].test_path
        /\ dupe_log # <<>>

\* The duplicate errors logged for an identity.
DupesLoggedOf(id) == {i \in 1..Len(dupe_log) : identity(dupe_log[i].test_path) = id}

\* C16: whatever the number of entries loaded for an identity, one duplicate
\* error is logged for it if they are two or more, and none otherwise.
DuplicateLoggedOnce ==
    \A id \in LoadedIdentities :
        Cardinality(DupesLoggedOf(id)) = (IF Cardinality(LoadsOf(id)) >= 2 THEN 1 ELSE 0)

\* What the code logs: an error for every entry of an identity but its first.
DuplicateLoggedPerEntry ==
    \A id \in LoadedIdentities :
        Cardinality(DupesLoggedOf(id)) = Cardinality(LoadsOf(id)) - 1

\* The entries received for an identity from reports of a run info.
EntriesOf(id, c) ==
    UNION {{received[i].entries[j] :
                j \in {j \in 1..Len(received[i].entries) :
                            identity(received[i].entries[j].test_path) = id}} :
           i \in {i \in 1..Len(received) :
                    received[i].run_info = [platform |-> c[1], build_profile |-> c[2]]}}

ReceivedIdentities ==
    UNION {{identity(received[i].entries[j].test_path) :
                j \in 1..Len(received[i].entries)} :
           i \in 1..Len(received)}

\* The outcomes reported for a test, and for one of its subtests, in a cell.
OutcomesOf(id, c) == {reported_outcome(e.result) : e \in EntriesOf(id, c)}
SubtestOutcomesOf(id, n, c) ==
    UNION {{e.result.subtests[k].outcome :
                k \in {k \in 1..Len(e.result.subtests) : e.result.subtests[k].subtest_name = n}} :
           e \in EntriesOf(id, c)}

\* A reported map holds in a cell exactly the outcomes given, and has no
\* cell where none is given.
Records(reported, outcomes_at(_)) ==
    \A c \in CellSet :
        IF outcomes_at(c) = {} THEN ~reported_at(reported, c[1], c[2]).some
        ELSE reported_at(reported, c[1], c[2]) = Some(outcomes_at(c))

\* C17: whatever reports were received, the report side of every test and of
\* every subtest has a cell exactly where a report of that run info gave it
\* an outcome, and the cell is the set of the outcomes so given; no other
\* cell and no other identity has a record.
ReportedIsWhatWasReported ==
    /\ \A id \in ReceivedIdentities : Stored(id)
    /\ \A id \in ReceivedIdentities \cup LoadedIdentities :
        /\ Records(TestEntryOf(id).entry.reported, LAMBDA c : OutcomesOf(id, c))
        /\ \A n \in SubtestNames :
            IF n \in DOMAIN TestEntryOf(id).subtests
            THEN Records(TestEntryOf(id).subtests[n].reported,
                         LAMBDA c : SubtestOutcomesOf(id, n, c))
            ELSE \A c \in CellSet : SubtestOutcomesOf(id, n, c) = {}
    /\ \A k \in DOMAIN entries_by_cts_path :
            [cts_path |-> k] \in ReceivedIdentities \cup LoadedIdentities
    /\ \A t \in DOMAIN other_entries_by_test :
            [test_path |-> t] \in ReceivedIdentities \cup LoadedIdentities

\* Two reports of one run info gave a test and its subtest two outcomes
\* each, the test has no record in another cell, and another identity of
\* the store has no record at all.
ReportedIsWhatWasReportedWitness ==
    /\ \E id \in ReceivedIdentities : \E c \in CellSet :
        /\ Cardinality(OutcomesOf(id, c)) = 2
        /\ reported_at(TestEntryOf(id).entry.reported, c[1], c[2]) = Some(OutcomesOf(id, c))
        /\ \E n \in DOMAIN TestEntryOf(id).subtests :
                Cardinality(SubtestOutcomesOf(id, n, c)) = 2
        /\ \E d \in CellSet : ~reported_at(TestEntryOf(id).entry.reported, d[1], d[2]).some
    /\ \E id \in LoadedIdentities : TestEntryOf(id).entry.reported = <<>>

\* C18: a CTS record that is written is written under its reported path, and
\* not under its metadata path, when it has both and they differ; under the
\* path the two share when they are equal; under the one it has otherwise.
OutputPathResolved ==
    pc = "done" =>
        \A k \in DOMAIN entries_by_cts_path :
            LET meta == entries_by_cts_path[k].metadata_path
                rep == entries_by_cts_path[k].reported_path
                kept == recombined(entries_by_cts_path[k].entry, preset)
            IN  kept.some =>
                    /\ meta.some \/ rep.some
                    /\ (meta.some /\ rep.some /\ meta # rep) =>
                            Written(rep.val) = kept /\ ~Written(meta.val).some
                    /\ (meta.some /\ rep.some /\ meta = rep) => Written(meta.val) = kept
                    /\ (meta.some /\ ~rep.some) => Written(meta.val) = kept
                    /\ (~meta.some /\ rep.some) => Written(rep.val) = kept

\* A test with metadata under one path and reports under another is
\* written to the file of the reported path, and the file of its metadata
\* is removed.
OutputPathResolvedWitness ==
    /\ pc = "done"
    /\ \E k \in DOMAIN entries_by_cts_path :
        LET meta == entries_by_cts_path[k].metadata_path
            rep == entries_by_cts_path[k].reported_path
        IN  /\ meta.some /\ rep.some /\ meta # rep
            /\ Written(rep.val).some
            /\ rel_metadata_path(rep.val) \in DOMAIN files
            /\ rel_metadata_path(meta.val) \in removed_files

\* C19: a metadata entry or a report entry from which no TestPath derives
\* is skipped, and the run goes on to the other entries: the run never
\* aborts at an entry.
UnderivableEntrySkipped == pc # "panicked"

----------------------------------------------------------------------------
(* SpecIngest: the report files are fanned out to worker tasks, which send *)
(* what they read through the channel, and the collector loops over the    *)
(* channel once for_each_with has returned. The store starts empty.        *)

\* A send that is dropped once a failure is in the channel.
send_unless_failed(ch, msg) ==
    IF \E i \in 1..Len(ch) : ~ch[i].ok THEN ch ELSE Append(ch, msg)

\* Sender::send on the unbounded channel
send(ch, msg) == Append(ch, msg)

\* What a worker makes of its file: the decoded report, or the failure to
\* open or to decode it.
AlreadyReportedToCommandline == Err
ReadResults == {Ok(r) : r \in ExecutionReports} \cup {AlreadyReportedToCommandline}

IngestInit ==
    /\ pc = "fanout"
    /\ preset \in ReportProcessingPreset
    /\ exec_report_paths \in 0..MaxReports
    /\ reports_left = exec_report_paths
    /\ meta_loaded = 0
    /\ entries_by_cts_path = <<>>
    /\ other_entries_by_test = <<>>
    /\ old_meta_file_paths = {}
    /\ files = <<>>
    /\ removed_files = {}
    /\ loaded = <<>>
    /\ received = <<>>
    /\ dupe_log = <<>>
    /\ task = [path \in 1..exec_report_paths |-> "queued"]
    /\ channel = <<>>
    /\ sent = <<>>
    /\ PRINTED_WARNING = FALSE
    /\ ExpIdle /\ CollapseIdle /\ TaintIdle /\ ReconcileIdle /\ PathIdle /\ UrlIdle

\* The task of one path: it reads the file and sends the result.
WorkerSend ==
    /\ pc = "fanout"
    /\ \E path \in DOMAIN task :
        /\ task[path] = "queued"
        /\ \E read \in ReadResults :
            LET res == IF read.ok THEN Ok([path |-> path, parsed |-> read.val])
                       ELSE AlreadyReportedToCommandline
            IN  /\ channel' = send(channel, res)
                /\ sent' = IF channel' # channel
                           THEN Append(sent, [path |-> path, res |-> res])
                           ELSE sent
        /\ task' = [task EXCEPT ![path] = "done"]
    /\ UNCHANGED <<pc, preset, exec_report_paths, reports_left, meta_loaded,
                   entries_by_cts_path, other_entries_by_test, old_meta_file_paths,
                   files, removed_files, loaded, received, dupe_log,
                   PRINTED_WARNING, otherThanIngest>>

\* for_each_with returns once every task has run; the senders are dropped.
ForEachReturn ==
    /\ pc = "fanout"
    /\ \A path \in DOMAIN task : task[path] = "done"
    /\ pc' = "collect"
    /\ UNCHANGED <<preset, exec_report_paths, reports_left, meta_loaded,
                   entries_by_cts_path, other_entries_by_test, old_meta_file_paths,
                   files, removed_files, loaded, received, dupe_log,
                   PRINTED_WARNING, ingestVars, otherThanIngest>>

\* The collector takes a decoded report out of the channel.
CollectorReceive ==
    /\ pc = "collect"
    /\ channel # <<>>
    /\ Head(channel).ok
    /\ RecordReport(Head(channel).val.parsed)
    /\ channel' = Tail(channel)
    /\ reports_left' = reports_left - 1
    /\ UNCHANGED <<preset, exec_report_paths, meta_loaded, old_meta_file_paths,
                   files, removed_files, loaded, dupe_log, PRINTED_WARNING,
                   task, sent, otherThanIngest>>

\* The collector takes a failure out of the channel: the run exits.
CollectorFail ==
    /\ pc = "collect"
    /\ channel # <<>>
    /\ ~Head(channel).ok
    /\ pc' = "failed"
    /\ channel' = Tail(channel)
    /\ reports_left' = reports_left - 1
    /\ UNCHANGED <<preset, exec_report_paths, meta_loaded, entries_by_cts_path,
                   other_entries_by_test, old_meta_file_paths, files, removed_files,
                   loaded, received, dupe_log, PRINTED_WARNING, task, sent,
                   otherThanIngest>>

\* The channel is empty and has no sender left: the loop ends.
CollectorExhausted ==
    /\ pc = "collect"
    /\ channel = <<>>
    /\ pc' = "collected"
    /\ UNCHANGED <<preset, exec_report_paths, reports_left, meta_loaded,
                   entries_by_cts_path, other_entries_by_test, old_meta_file_paths,
                   files, removed_files, loaded, received, dupe_log,
                   PRINTED_WARNING, ingestVars, otherThanIngest>>

IngestNext ==
    \/ WorkerSend
    \/ ForEachReturn
    \/ CollectorReceive
    \/ CollectorFail
    \/ CollectorExhausted

\* The collector takes the message at the head of the channel.
CollectorTake == pc = "collect" /\ channel # <<>> /\ channel' = Tail(channel)

\* The pool runs every task it was given, for_each_with returns when they
\* are done, and the collector's loop takes what the channel holds and ends
\* when it holds nothing.
SpecIngest ==
    /\ IngestInit
    /\ [][IngestNext]_vars
    /\ WF_vars(WorkerSend)
    /\ WF_vars(ForEachReturn)
    /\ WF_channel(CollectorTake)
    /\ WF_vars(CollectorExhausted)

\* The messages a path's task has sent.
SentBy(path) == {i \in 1..Len(sent) : sent[i].path = path}

IngestSafety ==
    \* a task that has run has sent one message, whatever its siblings sent
    /\ \A path \in DOMAIN task :
        Cardinality(SentBy(path)) = (IF task[path] = "done" THEN 1 ELSE 0)
    \* the collector runs only once every task has sent
    /\ pc # "fanout" => \A path \in DOMAIN task : task[path] = "done"
    \* the tasks leave the store alone
    /\ pc = "fanout" =>
        /\ entries_by_cts_path = <<>>
        /\ other_entries_by_test = <<>>
        /\ received = <<>>
    \* what the channel holds, and what the collector took, was sent
    /\ Len(channel) <= Len(sent)
    /\ \A i \in 1..Len(channel) :
        channel[i] = sent[Len(sent) - Len(channel) + i].res
    /\ Len(received) <= Len(sent) - Len(channel)
    /\ \A i \in 1..Len(received) :
        \E j \in 1..(Len(sent) - Len(channel)) :
            /\ sent[j].res.ok
            /\ sent[j].res.val.parsed.run_info = received[i].run_info

IngestEnded == pc \in {"collected", "failed", "panicked"}

\* C22: every report path gets one task that sends one message, a decoded
\* report or a failure, whether or not a sibling failed; the tasks change
\* nothing in the store; the collector takes only messages that were sent,
\* after every task has sent, and its loop ends.
NoMidFlightCancellation == []IngestSafety /\ <>IngestEnded

\* The first task failed, the second sent its report after that, and the
\* collector has left on the failure.
NoMidFlightCancellationWitness ==
    /\ pc = "failed"
    /\ Len(sent) = 2
    /\ ~sent[1].res.ok
    /\ sent[2].res.ok
    /\ sent[1].path # sent[2].path
    /\ \A path \in DOMAIN task : task[path] = "done"

----------------------------------------------------------------------------
(* SpecCorrelate: the run over tests that differ in one part of their      *)
(* TestPath only, each with the same section and the same result.          *)

\* The file of OtherTest with the variant of the CTS tests.
CtsVariantElsewhere == [OtherTest EXCEPT !.variant = PrivateCtsTest.variant]
\* OtherTest in the other scope.
PrivateOtherTest == [OtherTest EXCEPT !.scope = FirefoxPrivate]
\* The file of PublicCtsTest with a query that is not one of webgpu.
CtsFileOtherQuery == [PublicCtsTest EXCEPT !.variant = Some(<<"?", "q", "=", "x">>)]

CorrelatedPaths ==
    {PrivateCtsTest, PublicCtsTest, OtherTest, CtsVariantElsewhere, PrivateOtherTest,
     CtsFileOtherQuery}

CorrelatedSection == CHOOSE x \in MetaSections : x.subtests # <<>>
CorrelatedRunInfo == CHOOSE ri \in RunInfos : ri.platform = "Windows"
\* The result of a test that ran no subtest.
CorrelatedResult == Complete("Ok", <<>>)

CorrelatedMetaTests ==
    {[rel_meta_file_path |-> metadata_file_of(t.scope, t.path),
      test_name |-> test_name(t.path, t.variant),
      test |-> CorrelatedSection] : t \in CorrelatedPaths}

CorrelatedReports ==
    {[run_info |-> CorrelatedRunInfo,
      entries |-> <<[test_name |-> report_url_of(t.scope, t.path, t.variant),
                     result |-> CorrelatedResult]>>] : t \in CorrelatedPaths}

CorrelateInit == Init

CorrelateMetadataTest ==
    /\ pc = "metadata"
    /\ meta_loaded < MaxMetaTests
    /\ \E m \in CorrelatedMetaTests : RecordMetadataTest(m)
    /\ meta_loaded' = meta_loaded + 1
    /\ UNCHANGED <<preset, exec_report_paths, reports_left, files, removed_files,
                   received, PRINTED_WARNING, otherThanRun>>

CorrelateReport ==
    /\ pc = "reports"
    /\ reports_left > 0
    /\ \E r \in CorrelatedReports : RecordReport(r)
    /\ reports_left' = reports_left - 1
    /\ UNCHANGED <<preset, exec_report_paths, meta_loaded, old_meta_file_paths,
                   files, removed_files, loaded, dupe_log, PRINTED_WARNING, otherThanRun>>

CorrelateNext ==
    \/ CorrelateMetadataTest
    \/ StartReports
    \/ CorrelateReport
    \/ ReceiveFailure
    \/ Reconcile

SpecCorrelate == CorrelateInit /\ [][CorrelateNext]_vars

\* The TestPaths the run has met, in metadata and in reports.
LoadedPaths == {loaded[i].test_path : i \in 1..Len(loaded)}
ReceivedPaths ==
    UNION {{received[i].entries[j].test_path : j \in 1..Len(received[i].entries)} :
           i \in 1..Len(received)}

HasCtsQueryKey(t) ==
    /\ t.variant.some
    /\ Len(t.variant.val) >= Len(CtsVariantPrefix)
    /\ SubSeq(t.variant.val, 1, Len(CtsVariantPrefix)) = CtsVariantPrefix
    /\ Len(t.path) >= Len(CtsFileName)
    /\ SubSeq(t.path, Len(t.path) - Len(CtsFileName) + 1, Len(t.path)) = CtsFileName
    /\ (Len(t.path) > Len(CtsFileName) => t.path[Len(t.path) - Len(CtsFileName)] = "/")
CtsQueryKey(t) == SubSeq(t.variant.val, Len(QueryPrefix) + 1, Len(t.variant.val))

\* C23: a TestPath has a CTS key exactly when its variant starts with
\* ?q=webgpu: and the last component of its path is cts.https.html, and the
\* key is the variant without ?q=. The store has one record per key, which
\* holds what the metadata and the reports gave for any TestPath of that key,
\* whatever its scope and directory, and one record per TestPath without key,
\* which holds what they gave for that very scope, path and variant.
CtsKeyCorrelation ==
    /\ \A t \in LoadedPaths \cup ReceivedPaths :
        cts_path(t) = (IF HasCtsQueryKey(t) THEN Some(CtsQueryKey(t)) ELSE None)
    /\ DOMAIN entries_by_cts_path =
        {CtsQueryKey(t) : t \in {t \in LoadedPaths \cup ReceivedPaths : HasCtsQueryKey(t)}}
    /\ DOMAIN other_entries_by_test =
        {t \in LoadedPaths \cup ReceivedPaths : ~HasCtsQueryKey(t)}
    /\ \A k \in DOMAIN entries_by_cts_path :
        LET e == entries_by_cts_path[k].entry.entry
        IN  /\ e.meta_props.some <=>
                \E t \in LoadedPaths : HasCtsQueryKey(t) /\ CtsQueryKey(t) = k
            /\ e.reported # <<>> <=>
                \E t \in ReceivedPaths : HasCtsQueryKey(t) /\ CtsQueryKey(t) = k
    /\ \A t \in DOMAIN other_entries_by_test :
        LET e == other_entries_by_test[t].entry
        IN  /\ e.meta_props.some <=> t \in LoadedPaths
            /\ e.reported # <<>> <=> t \in ReceivedPaths

\* One record holds the metadata of a CTS test of one scope and directory
\* and the report of the test of the same key in another scope and
\* directory, while the tests of one file that differ in scope, or in
\* variant, have each a record of their own.
CtsKeyCorrelationWitness ==
    /\ \E k \in DOMAIN entries_by_cts_path :
        LET e == entries_by_cts_path[k]
        IN  /\ e.metadata_path.some
            /\ e.reported_path.some
            /\ e.metadata_path.val.scope # e.reported_path.val.scope
            /\ e.metadata_path.val.path # e.reported_path.val.path
            /\ e.entry.entry.meta_props.some
            /\ e.entry.entry.reported # <<>>
    /\ \E t, u \in DOMAIN other_entries_by_test :
        /\ t.path = u.path
        /\ t.variant = u.variant
        /\ t.scope # u.scope
        /\ other_entries_by_test[t].entry.meta_props.some
        /\ other_entries_by_test[t].entry.reported = <<>>
        /\ ~other_entries_by_test[u].entry.meta_props.some
        /\ other_entries_by_test[u].entry.reported # <<>>

----------------------------------------------------------------------------
(* SpecUrl: from_execution_report called once on a URL path, with or       *)
(* without a prefix, for either browser.                                   *)

\* Length of what follows the prefix of a URL path.
MaxUrlLen == 3

UrlChars == {"a", "/", "?", "\\"}
UrlPrefixes == {<<>>, RootUrlPrefix, MozillaUrlPrefix, ServoUrlPrefix}
UrlPaths == {prefix \o str : prefix \in UrlPrefixes, str \in Strings(UrlChars, MaxUrlLen)}

UrlInit ==
    /\ url_path \in UrlPaths
    /\ report_browser \in Browser
    /\ derived = None
    /\ PRINTED_WARNING = FALSE
    /\ preset = None
    /\ ExpIdle /\ CollapseIdle /\ TaintIdle /\ ReconcileIdle /\ RunIdle /\ PathIdle
    /\ IngestIdle

DeriveFromUrl ==
    /\ ~derived.some
    /\ derived' = Some(from_execution_report(url_path, report_browser))
    /\ UNCHANGED <<url_path, report_browser, otherThanUrl>>

UrlNext == DeriveFromUrl

SpecUrl == UrlInit /\ [][UrlNext]_vars

\* Whether a string begins with another, and what follows it.
Begins(str, prefix) ==
    /\ Len(str) >= Len(prefix)
    /\ \A i \in 1..Len(prefix) : str[i] = prefix[i]
After(str, prefix) == [i \in 1..(Len(str) - Len(prefix)) |-> str[Len(prefix) + i]]

\* The prefix the browser recognizes in the URL path, if any, with its scope.
Recognized ==
    IF report_browser = "Firefox"
    THEN IF Begins(url_path, MozillaUrlPrefix)
         THEN Some([scope |-> FirefoxPrivate, prefix |-> MozillaUrlPrefix])
         ELSE IF Begins(url_path, RootUrlPrefix)
         THEN Some([scope |-> FirefoxPublic, prefix |-> RootUrlPrefix])
         ELSE None
    ELSE IF Begins(url_path, ServoUrlPrefix)
         THEN Some([scope |-> ServoPublic, prefix |-> ServoUrlPrefix])
         ELSE None

Stripped == After(url_path, Recognized.val.prefix)

\* The places of '?' in the trailing segment of the stripped URL path.
TrailingQueries ==
    {i \in 1..Len(Stripped) :
        /\ Stripped[i] = "?"
        /\ \A j \in i..Len(Stripped) : Stripped[j] # "/"}

\* C24: from_execution_report fails exactly when the URL path has no prefix
\* the browser recognizes or what follows the prefix holds a backslash;
\* otherwise it gives the scope of the prefix, as variant the text from the
\* first '?' of the trailing segment to the end (none without such a '?'),
\* and as path the text before it, so that path and variant together are
\* what followed the prefix.
UrlSplitAtTrailingQuery ==
    derived.some =>
        /\ ~derived.val.ok <=>
            (~Recognized.some \/ \E i \in 1..Len(Stripped) : Stripped[i] = "\\")
        /\ derived.val.ok =>
            LET test_path == derived.val.val
                variant == IF test_path.variant.some THEN test_path.variant.val ELSE <<>>
                before == [i \in 1..(Len(Stripped) - Len(variant)) |-> Stripped[i]]
            IN  /\ test_path.scope = Recognized.val.scope
                /\ test_path.variant.some <=> TrailingQueries # {}
                /\ test_path.variant.some =>
                    Len(Stripped) - Len(variant) + 1 \in TrailingQueries
                /\ \A i \in TrailingQueries : i > Len(Stripped) - Len(variant)
                /\ before \o variant = Stripped
                /\ test_path.path = utf8_path(before)

\* A Firefox URL under /_mozilla/ with two '?' in its trailing segment was
\* split at the first of the two.
UrlSplitAtTrailingQueryWitness ==
    /\ derived.some
    /\ derived.val.ok
    /\ derived.val.val.scope = FirefoxPrivate
    /\ derived.val.val.variant = Some(<<"?", "?">>)
    /\ derived.val.val.path # <<>>
    /\ Len(url_path) = Len(MozillaUrlPrefix) + 2 + Len(derived.val.val.path)

\* A cell with the tainting applied: with one of Timeout and NotRun it has
\* both.
WithTaint(cell) ==
    IF cell \cap {"Timeout", "NotRun"} # {} THEN cell \cup {"Timeout", "NotRun"} ELSE cell

\* The subtests with metadata and without reported outcome, in the tests
\* that have reported outcomes.
UnreportedSubtests ==
    UNION {{[path |-> st.path, name |-> n, subtest |-> st.test_entry.subtests[n]] :
                n \in {n \in DOMAIN st.test_entry.subtests :
                        /\ st.test_entry.subtests[n].meta_props.some
                        /\ st.test_entry.subtests[n].reported = <<>>}} :
           st \in {st \in StoredTests : st.test_entry.entry.reported # <<>>}}

\* C29: in a run with reports, a subtest with metadata and without reported
\* outcome, in a test that has reported outcomes, is written under every
\* preset: under ResetContradictory and Merge with the expectation of its
\* metadata in every cell, the tainting applied, and under ResetAll with the
\* default outcome in every cell.
UnreportedSubtestKept ==
    (pc = "done" /\ using_reports) =>
        \A u \in UnreportedSubtests :
            /\ Written(u.path).some
            /\ u.name \in DOMAIN Written(u.path).val.subtests
            /\ Written(u.path).val.subtests[u.name].expectations.some
            /\ \A c \in CellSet :
                get(Written(u.path).val.subtests[u.name].expectations.val, c[1], c[2])
                    = (IF preset = "ResetAll"
                       THEN expectation_default(SubtestOutcome)
                       ELSE WithTaint(get(ExistingOf(u.subtest, SubtestOutcome),
                                          c[1], c[2])))

\* A ResetContradictory run has written the subtest of a reported test,
\* itself unreported, with the expectations of its metadata, one cell of
\* which the tainting widened.
UnreportedSubtestKeptWitness ==
    /\ pc = "done"
    /\ using_reports
    /\ preset = "ResetContradictory"
    /\ \E u \in UnreportedSubtests :
        /\ u.subtest.meta_props.val.expectations.some
        /\ Written(u.path).some
        /\ \E c \in CellSet :
            /\ get(Written(u.path).val.subtests[u.name].expectations.val, c[1], c[2])
                    # get(u.subtest.meta_props.val.expectations.val, c[1], c[2])
            /\ get(Written(u.path).val.subtests[u.name].expectations.val, c[1], c[2])
                    # expectation_default(SubtestOutcome)

====
